---- MODULE Spec2Model ----
(***************************************************************************)
(* Test data generation of BAPCtools (bin/generate.py): the parser of the  *)
(* declarative tree (GeneratorConfig.__init__), the tree walk              *)
(* (Directory.walk), the build, run and clean phases of GeneratorConfig    *)
(* and the retry loop of GeneratorInvocation.run.                          *)
(*                                                                         *)
(* Each function is modelled from its own body.  A call is modelled as     *)
(* reaching the callee with its arguments matched by role.  A name that a  *)
(* body reads and nothing binds ends the call with an exception.           *)
(***************************************************************************)
EXTENDS Integers, Sequences, FiniteSets, TLC

\* ------------------------------------------------------------------ bounds
MaxJobs == 2
MaxRetries == 3
MaxSeed == 3
HashBits == 33

\* ------------------------------------------------------------------- paths
\* pathlib.Path relative to data/: the sequence of its segments; Path('') is <<>>.
PathJoin(p, name) == IF name = "" THEN p ELSE Append(p, name)
PathName(p) == IF p = <<>> THEN "" ELSE p[Len(p)]

\* ------------------------------------------------- the declarative tree
\* A node of generators.yaml.  type: "testcase" (is_testcase), "directory"
\* (is_directory) or "other".  input: "" is a manual case, anything else a
\* generator command.  form: the shape of the data key ("none", "dict",
\* "list"); items: the dictionaries of data, each a sequence of <<key, node>>
\* in file order with distinct keys.  include: the include list.
\* solution: "inherit" when the key is absent, "" or the command otherwise;
\* visualizer, random_salt and retries likewise, absent unless With sets them.
Node(type, input, solution, include, form, items) ==
    [type |-> type, input |-> input, solution |-> solution,
     visualizer |-> "inherit", random_salt |-> "inherit", retries |-> "inherit",
     include |-> include, form |-> form, items |-> items]
\* The node with the key given the value.
With(node, key, value) == [node EXCEPT ![key] = value]
Manual == Node("testcase", "", "inherit", <<>>, "none", <<>>)
Gen(cmd) == Node("testcase", cmd, "inherit", <<>>, "none", <<>>)
Other == Node("other", "", "inherit", <<>>, "none", <<>>)
Dir(include, form, items) == Node("directory", "", "inherit", include, form, items)
DirSol(sol, form, items) == Node("directory", "", sol, <<>>, form, items)
EmptyDir == Dir(<<>>, "none", <<>>)

is_testcase(yaml) == yaml.type = "testcase"
is_directory(yaml) == yaml.type = "directory"

\* The order of str on the keys that occur, for sorted(dictionary.items()).
KeyRank(k) ==
    CASE k = "" -> 0
      [] k = "a" -> 1
      [] k = "b" -> 2
      [] k = "c" -> 3
      [] OTHER -> 4

RECURSIVE InsertSorted(_, _)
InsertSorted(item, s) ==
    IF s = <<>> THEN <<item>>
    ELSE IF KeyRank(item[1]) < KeyRank(Head(s)[1]) THEN <<item>> \o s
    ELSE <<Head(s)>> \o InsertSorted(item, Tail(s))

RECURSIVE sorted(_)
sorted(items) ==
    IF items = <<>> THEN <<>> ELSE InsertSorted(Head(items), sorted(Tail(items)))

\* ------------------------------------------------------------------ parse
\* The state threaded through parse(): known_cases, next_number, the rule
\* objects in order of construction, and whether an assertion has failed.
\* A rule: kind "testcase" | "directory", name, path, parent (index into
\* rules, 0 for the Directory(problem) above the root), manual, generator,
\* solution (resolved config value: "True" is the default sentinel, "None"
\* no solution), numbered, includes, data (indices of the children).
ParseInit ==
    [ok |-> TRUE, err |-> "", known_cases |-> {}, next_number |-> 1, rules |-> <<>>]

Fail(st, why) == [st EXCEPT !.ok = FALSE, !.err = why]

ParentPath(st, parent) == IF parent = 0 THEN <<>> ELSE st.rules[parent].path
ParentNumbered(st, parent) == IF parent = 0 THEN FALSE ELSE st.rules[parent].numbered
ParentSolution(st, parent) == IF parent = 0 THEN "True" ELSE st.rules[parent].solution

\* Config.__init__ for the solution key: the node's own value, else the
\* parent's resolved value (the default True sits on Directory(problem)).
ConfigSolution(st, yaml, parent) ==
    IF yaml.solution # "inherit"
    THEN (IF yaml.solution = "" THEN "None" ELSE yaml.solution)
    ELSE ParentSolution(st, parent)

\* assert t.path not in self.known_cases / assert d.path not in self.known_cases
PathIsNew_dropped(path, known) == TRUE
PathIsNew(path, known) == path \notin known

\* assert Path(include) in self.known_cases
IncludeKnown(include, known) == include \in known

\* Config.INHERITABLE_KEYS: the defaults, as they sit on Directory(problem).
DefaultConfig ==
    [solution |-> "True", visualizer |-> "None", random_salt |-> "", retries |-> 1]
ConfigKeys == DOMAIN DefaultConfig

\* int(x) of a decimal string.
Digit(c) ==
    CASE c = "0" -> 0 [] c = "1" -> 1 [] c = "2" -> 2 [] c = "3" -> 3 [] c = "4" -> 4
      [] c = "5" -> 5 [] c = "6" -> 6 [] c = "7" -> 7 [] c = "8" -> 8 [] c = "9" -> 9
RECURSIVE Decimal(_)
Decimal(x) ==
    IF Len(x) = 0 THEN 0
    ELSE 10 * Decimal(SubSeq(x, 1, Len(x) - 1)) + Digit(SubSeq(x, Len(x), Len(x)))
int(x) ==
    IF Len(x) > 1 /\ SubSeq(x, 1, 1) = "-" THEN 0 - Decimal(SubSeq(x, 2, Len(x)))
    ELSE Decimal(x)

\* Config.INHERITABLE_KEYS: the function applied to a value given in the yaml.
ConfigFunc(key, x) ==
    CASE key = "solution" -> (IF x = "" THEN "None" ELSE x)
      [] key = "visualizer" -> (IF x = "" THEN "None" ELSE x)
      [] key = "random_salt" -> x
      [] key = "retries" -> int(x)

ParentConfig(st, parent) ==
    IF parent = 0 THEN DefaultConfig
    ELSE [key \in ConfigKeys |-> st.rules[parent][key]]

\* Config.__init__: the value in yaml, else the value of parent_config.
Inherited_default(parent_config, key) == DefaultConfig[key]
Inherited(parent_config, key) == parent_config[key]
ConfigValue(st, yaml, parent, key) ==
    IF yaml[key] # "inherit" THEN ConfigFunc(key, yaml[key])
    ELSE Inherited(ParentConfig(st, parent), key)

\* hashlib.sha512 on the strings that are hashed: a fixed function to digests,
\* a digest being its bits, the most significant first.
VARIABLE sha512

SeedBits == 31

\* int(hexdigest, 16) % (2**31): the number held by the last 31 bits.
RECURSIVE BitsValue(_)
BitsValue(bits) ==
    IF bits = <<>> THEN 0
    ELSE 2 * BitsValue(SubSeq(bits, 1, Len(bits) - 1)) + bits[Len(bits)]
SeedOf(digest) == BitsValue(SubSeq(digest, Len(digest) - SeedBits + 1, Len(digest)))

\* seed_value = self.config.random_salt + yaml['input']
SeedSalt_declared(declared, resolved) == IF declared = "inherit" THEN "" ELSE declared
SeedSalt(declared, resolved) == resolved
seed_value(salt, input) == salt \o input

\* shlex.split(str(string))[0]: the command string up to its first blank.
RECURSIVE CommandEnd(_, _)
CommandEnd(string, i) ==
    IF i > Len(string) \/ SubSeq(string, i, i) = " " THEN i - 1
    ELSE CommandEnd(string, i + 1)
Command(string) == SubSeq(string, 1, CommandEnd(string, 1))

\* self.args = commands[1:], as one string
Args(string) == SubSeq(string, CommandEnd(string, 1) + 1, Len(string))

\* Invocation.SEED_REGEX = \{seed(:[0-9]+)?\}: the length of the match that
\* starts at i, 0 if there is none.
IsDigit(c) == c \in {"0", "1", "2", "3", "4", "5", "6", "7", "8", "9"}
RECURSIVE DigitsFrom(_, _)
DigitsFrom(string, i) ==
    IF i <= Len(string) /\ IsDigit(SubSeq(string, i, i)) THEN 1 + DigitsFrom(string, i + 1)
    ELSE 0
SeedLen(string, i) ==
    IF i + 5 > Len(string) \/ SubSeq(string, i, i + 4) # "{seed" THEN 0
    ELSE IF SubSeq(string, i + 5, i + 5) = "}" THEN 6
    ELSE IF SubSeq(string, i + 5, i + 5) # ":" THEN 0
    ELSE LET k == DigitsFrom(string, i + 6)
         IN  IF k >= 1 /\ i + 6 + k <= Len(string)
                /\ SubSeq(string, i + 6 + k, i + 6 + k) = "}"
             THEN 7 + k ELSE 0

\* seed_cnt: the matches of SEED_REGEX in the arguments
seed_cnt(string) ==
    Cardinality({i \in 1..Len(Args(string)) : SeedLen(Args(string), i) > 0})

\* assert seed_cnt <= 1
TooManySeeds_three(cnt) == cnt > 2
TooManySeeds(cnt) == cnt > 1

\* Directory.__init__: numbered is set for a non-empty list.
DirNumbered_never(yaml) == FALSE
DirNumbered(yaml) == yaml.form = "list" /\ Len(yaml.items) > 0

NewRule(st, kind, name, yaml, parent) ==
    [kind |-> kind, name |-> name, path |-> PathJoin(ParentPath(st, parent), name),
     parent |-> parent,
     manual |-> (kind = "testcase" /\ yaml.input = ""),
     generator |-> IF kind = "testcase" THEN yaml.input ELSE "",
     solution |-> ConfigSolution(st, yaml, parent),
     visualizer |-> ConfigValue(st, yaml, parent, "visualizer"),
     random_salt |-> ConfigValue(st, yaml, parent, "random_salt"),
     retries |-> ConfigValue(st, yaml, parent, "retries"),
     seed |-> IF kind = "testcase" /\ yaml.input # ""
              THEN SeedOf(sha512[seed_value(
                       SeedSalt(yaml.random_salt,
                                ConfigValue(st, yaml, parent, "random_salt")),
                       yaml.input)])
              ELSE -1,
     declared |-> [key \in ConfigKeys |-> yaml[key]],
     numbered |-> (kind = "directory" /\ DirNumbered(yaml)),
     includes |-> <<>>, data |-> <<>>]

\* for include in yaml['include']: the assertion, then the alias is added.
RECURSIVE parse_includes(_, _, _, _)
parse_includes(d, includes, i, st) ==
    IF ~st.ok \/ i > Len(includes) THEN st
    ELSE IF ~IncludeKnown(includes[i], st.known_cases)
         THEN Fail(st, "include")
         ELSE parse_includes(d, includes, i + 1,
                  [st EXCEPT !.known_cases =
                      @ \cup {PathJoin(st.rules[d].path, PathName(includes[i]))}])

RECURSIVE parse(_, _, _, _)
RECURSIVE parse_items(_, _, _, _, _)
RECURSIVE parse_data(_, _, _, _)

\* for child_name, child_yaml in sorted(dictionary.items()): d.data.append(parse(...))
parse_items(d, prefix, items, j, st) ==
    IF ~st.ok \/ j > Len(items) THEN st
    ELSE LET child == Len(st.rules) + 1
             st1 == parse(prefix \o items[j][1], items[j][2], d, st)
         IN  IF ~st1.ok THEN st1
             ELSE parse_items(d, prefix, items, j + 1,
                      [st1 EXCEPT !.rules[d].data = Append(@, child)])

\* for dictionary in yaml['data']: the number prefix of a numbered directory.
parse_data(d, dicts, i, st) ==
    IF ~st.ok \/ i > Len(dicts) THEN st
    ELSE LET numbered == st.rules[d].numbered
             prefix == IF numbered THEN ToString(st.next_number) \o "-" ELSE ""
             st1 == IF numbered THEN [st EXCEPT !.next_number = @ + 1] ELSE st
         IN  parse_data(d, dicts, i + 1, parse_items(d, prefix, sorted(dicts[i]), 1, st1))

parse(name, yaml, parent, st) ==
    IF ~st.ok THEN st
    ELSE IF ~(is_testcase(yaml) \/ is_directory(yaml)) THEN Fail(st, "type")
    ELSE IF is_testcase(yaml) THEN
        LET t == NewRule(st, "testcase", name, yaml, parent)
        IN  IF ~t.manual /\ TooManySeeds(seed_cnt(t.generator)) THEN Fail(st, "seed")
            ELSE IF ~PathIsNew(t.path, st.known_cases) THEN Fail(st, "duplicate")
            ELSE [st EXCEPT !.rules = Append(@, t),
                            !.known_cases = @ \cup {t.path}]
    ELSE
        \* Directory.__init__: a dict of children under a numbered parent.
        IF yaml.form = "dict" /\ yaml.items # <<>> /\ yaml.items[1] # <<>>
           /\ ParentNumbered(st, parent)
        THEN Fail(st, "numbered")
        ELSE
        LET dr == NewRule(st, "directory", name, yaml, parent)
            d == Len(st.rules) + 1
        IN  IF ~PathIsNew(dr.path, st.known_cases) THEN Fail(st, "duplicate")
            ELSE
            LET st1 == [st EXCEPT !.rules = Append(@, dr),
                                  !.known_cases = @ \cup {dr.path}]
                st2 == parse_includes(d, yaml.include, 1, st1)
                st3 == IF st2.ok
                       THEN [st2 EXCEPT !.rules[d].includes = yaml.include]
                       ELSE st2
            IN  parse_data(d, yaml.items, 1, st3)

\* self.root_dir = parse('', yaml, Directory(problem)); the root rule is rules[1].
ParseTree(yaml) == parse("", yaml, 0, ParseInit)

\* The number of nodes of a declarative tree.
RECURSIVE NodeCount(_)
RECURSIVE NodeCountItems(_, _)
RECURSIVE NodeCountDicts(_, _)
NodeCountItems(items, j) ==
    IF j > Len(items) THEN 0 ELSE NodeCount(items[j][2]) + NodeCountItems(items, j + 1)
NodeCountDicts(dicts, i) ==
    IF i > Len(dicts) THEN 0 ELSE NodeCountItems(dicts[i], 1) + NodeCountDicts(dicts, i + 1)
NodeCount(yaml) == 1 + NodeCountDicts(yaml.items, 1)

\* ------------------------------------------------------ the trees checked
K(key, node) == <<key, node>>
D1(items) == Dir(<<>>, "dict", <<items>>)
L(dicts) == Dir(<<>>, "list", dicts)

\* a testcase followed by a directory with one generated case
YamlPlain == D1(<<K("a", Manual), K("b", D1(<<K("a", Gen("g 1"))>>))>>)
\* keys out of order, directories nested two deep
YamlNested ==
    D1(<<K("b", Gen("g 2")),
         K("a", D1(<<K("a", Manual), K("b", D1(<<K("a", Gen("g 1"))>>))>>))>>)
\* numbered (list) directories
YamlNumbered ==
    L(<< <<K("a", Gen("g 1"))>>,
         <<K("b", L(<< <<K("a", Gen("g 2"))>>, <<K("a", Manual)>> >>))>> >>)
\* an include of a testcase declared earlier
YamlInclude ==
    D1(<<K("a", D1(<<K("a", Manual)>>)),
         K("b", Dir(<< <<"a", "a">> >>, "dict", << <<K("b", Gen("g 1"))>> >>))>>)
\* an include of a directory declared later
YamlForward == D1(<<K("a", Dir(<< <<"b">> >>, "none", <<>>)), K("b", EmptyDir)>>)
\* an include of a path that is never declared
YamlUnknown == D1(<<K("a", Dir(<< <<"c">> >>, "none", <<>>))>>)
\* a directory that includes itself
YamlSelf == D1(<<K("a", Dir(<< <<"a">> >>, "dict", << <<K("b", Manual)>> >>))>>)
\* a directory whose key is empty: it resolves to the path of its parent
YamlEmptyKey == D1(<<K("a", D1(<<K("", EmptyDir), K("b", Manual)>>))>>)
\* an include alias that collides with a declared child
YamlAlias ==
    D1(<<K("a", Manual), K("b", Dir(<< <<"a">> >>, "dict", << <<K("a", Manual)>> >>))>>)
\* a node that is neither a testcase nor a directory
YamlOther == D1(<<K("a", Manual), K("b", Other)>>)
\* a dict of children inside a numbered directory
YamlMixed == L(<< <<K("a", D1(<<K("a", Manual)>>))>> >>)
\* solutions set per directory
YamlSolution ==
    D1(<<K("a", DirSol("s", "dict", << <<K("a", Gen("g 1")), K("b", Gen("g 1"))>> >>)),
         K("b", DirSol("", "dict", << <<K("a", Manual)>> >>))>>)

\* The trees for the inheritable keys: a root, a directory in it and
\* testcases in both, the root, the directory and one testcase each declaring
\* one of a few sets of keys.
ConfigChoices ==
    {<<>>,
     << <<"random_salt", "x">> >>,
     << <<"solution", "s">>, <<"retries", "2">> >>,
     << <<"solution", "">>, <<"visualizer", "v">>, <<"random_salt", "">> >>}

RECURSIVE WithAll(_, _)
WithAll(node, choice) ==
    IF choice = <<>> THEN node
    ELSE WithAll(With(node, Head(choice)[1], Head(choice)[2]), Tail(choice))

ConfigYaml(cr, cd, ct) ==
    WithAll(D1(<<K("a", WithAll(D1(<<K("a", WithAll(Gen("g 1"), ct)),
                                     K("b", Gen("g 1")),
                                     K("c", Manual)>>), cd)),
                 K("b", Gen("g 2"))>>), cr)

ConfigYamls == {ConfigYaml(cr, cd, ct) : cr, cd, ct \in ConfigChoices}

\* The strings that get hashed, and a few digests: all bits set, only the two
\* highest bits set, a small number.
HashInputs == {salt \o cmd : salt \in {"", "x"}, cmd \in {"g 1", "g 2"}}
Digests ==
    {[i \in 1..HashBits |-> 1],
     [i \in 1..HashBits |-> IF i <= 2 THEN 1 ELSE 0],
     [i \in 1..HashBits |-> IF i \in {HashBits - 2, HashBits} THEN 1 ELSE 0]}
HashFunctions == [HashInputs -> Digests]
\* One of the functions, for the runs in which the seeds play no part.
Sha512Reference ==
    [x \in HashInputs |-> [i \in 1..HashBits |-> IF i <= Len(x) THEN 1 ELSE i % 2]]

Yamls ==
    {YamlPlain, YamlNested, YamlNumbered, YamlInclude, YamlForward, YamlUnknown,
     YamlSelf, YamlEmptyKey, YamlAlias, YamlOther, YamlMixed, YamlSolution}

\* ------------------------------------------------------------------ state
VARIABLES
    yaml,            \* generators.yaml, the declarative tree
    pc,              \* where the main thread is
    method,          \* the GeneratorConfig method running: "", "build", "run", "clean"
    err,             \* the assertion that ended parsing, "" when none
    rules,           \* the rule objects (root_dir is rules[1])
    known_cases,     \* self.known_cases
    parallel,        \* self.parallel
    jobs,            \* config.args.jobs
    stack,           \* the frames of Directory.walk: [dir, idx]
    cur,             \* the rule the main thread is working on
    q,               \* queue.Queue: the items not yet taken, 0 is None
    unfinished,      \* Queue.unfinished_tasks
    wstate,          \* per worker thread: "idle", "busy", "stopped", "dead"
    wcur,            \* per worker thread: the testcase it generates
    tstate,          \* per rule: "new", "queued", "running", "done", "failed",
                     \* "raised", "aborted"
    interrupted,     \* a KeyboardInterrupt was raised in the main thread
    n,               \* the counter of the loop the main thread is in
    sentinels,       \* the None items the interrupt handler has enqueued
    exit_status,     \* the status passed to exit(), -1 while running
    generators_used, \* build(): the program paths of the generators collected
    solutions_used,  \* build(): the program paths of the solutions collected
    default_solution,\* build(): the default solution, "None" until it is made
    built,           \* the program paths program.build() was called on, in order
    seed,            \* GeneratorInvocation.run: the seed argument
    retries,         \* GeneratorInvocation.run: the retries argument
    retry,           \* GeneratorInvocation.run: the loop variable, -1 while unbound
    attempts,        \* the calls of self.program.run made, in order
    result,          \* GeneratorInvocation.run: the result variable
    rpc,             \* where GeneratorInvocation.run is
    reported,        \* the calls of bar.error made by GeneratorInvocation.run
    rule,            \* TestcaseRule.generate: the testcase rule t it is called on
    settings,        \* problem.settings: force, samples
    target,          \* per extension, the file of the testcase in the data tree
    cwd,             \* per extension, the content of the file in the scratch directory
    meta,            \* the meta_.yaml of the testcase in the scratch directory
    timestamp,       \* program.timestamp of the generator, solution and visualizer
    clock,           \* the time
    gpc,             \* where TestcaseRule.generate is
    runs,            \* the calls of generate made on the testcase
    cache_data,      \* t.cache_data
    skipped,         \* the local skipped of generate
    ended,           \* how the call under way has ended, "" until it has
    warned,          \* the extensions a SKIPPED warning was given for in this call
    target0,         \* the files in the data tree when the call began
    history,         \* per call ended: how it ended, its warnings and the seed
    change,          \* what was changed since the last call ended
    invoked,         \* the programs run in this call, each with whether it succeeded
    drule,           \* Directory.generate: the directory d it is called on
    included,        \* the files of the included case in the data tree
    dir_files,       \* the entries of dir_path, each with where it comes from
    files_created,   \* the local files_created of Directory.generate
    todo,            \* the entries dir_path.glob('*') has yet to yield
    spc,             \* where Directory.generate is
    bar_warned,      \* the calls of bar.warn made by Directory.generate
    d_data           \* d.data: the names of the children of d

vars == <<sha512, yaml, pc, method, err, rules, known_cases, parallel, jobs, stack, cur, q,
          unfinished, wstate, wcur, tstate, interrupted, n, sentinels, exit_status,
          generators_used, solutions_used, default_solution, built,
          seed, retries, retry, attempts, result, rpc, reported,
          rule, settings, target, cwd, meta, timestamp, clock, gpc, runs, cache_data,
          skipped, ended, warned, target0, history, change, invoked,
          drule, included, dir_files, files_created, todo, spc, bar_warned, d_data>>

parseVars == <<sha512, yaml, err, known_cases, parallel>>
poolVars == <<q, unfinished, wstate, wcur>>
intVars == <<interrupted, sentinels, exit_status>>
buildVars == <<generators_used, solutions_used, default_solution, built>>
retryVars == <<seed, retries, retry, attempts, result, rpc, reported>>
scanVars == <<drule, included, dir_files, files_created, todo, spc, bar_warned, d_data>>
genOwn == <<rule, settings, target, cwd, meta, timestamp, clock, gpc, runs, cache_data,
            skipped, ended, warned, target0, history, change, invoked>>
genVars == <<genOwn, scanVars>>

\* The result variable of GeneratorInvocation.run before anything is bound to it.
NoResult == [status |-> "unbound", retry |-> FALSE, seed |-> -1]

\* No call of GeneratorInvocation.run is under way.
RetryIdle ==
    /\ seed = 0
    /\ retries = 0
    /\ retry = -1
    /\ attempts = <<>>
    /\ result = NoResult
    /\ rpc = "idle"
    /\ reported = <<>>

\* The extensions of a testcase's files (config.KNOWN_DATA_EXTENSIONS).
Exts == {".in", ".ans"}

\* No file at a path; no meta_.yaml.
NoFile == [content |-> "none", ctime |-> -1]
NoMeta == [data |-> {}, ctime |-> -1]

\* No call of Directory.generate is looked at.
ScanIdle ==
    /\ drule = [path |-> <<>>, testdata_yaml |-> "None", include |-> "none"]
    /\ included = {}
    /\ dir_files = <<>>
    /\ files_created = {}
    /\ todo = {}
    /\ spc = "none"
    /\ bar_warned = {}
    /\ d_data = <<>>

\* No call of TestcaseRule.generate is looked at.
TestcaseIdle ==
    /\ rule = [manual |-> TRUE, path |-> <<>>, source |-> <<>>, generator |-> "", random_salt |-> "", seed |-> -1,
            solution |-> "None", visualizer |-> "None", in_sample |-> FALSE]
    /\ settings = [force |-> FALSE, samples |-> FALSE]
    /\ target = [ext \in Exts |-> NoFile]
    /\ cwd = [ext \in Exts |-> "none"]
    /\ meta = NoMeta
    /\ timestamp = [generator |-> 0, solution |-> 0, visualizer |-> 0]
    /\ clock = 0
    /\ gpc = "none"
    /\ runs = 0
    /\ cache_data = {}
    /\ skipped = FALSE
    /\ ended = ""
    /\ warned = {}
    /\ target0 = [ext \in Exts |-> NoFile]
    /\ history = <<>>
    /\ change = "none"
    /\ invoked = {}
GenIdle == ScanIdle /\ TestcaseIdle

\* The state before GeneratorConfig(problem) is constructed.
Unconstructed ==
    /\ pc = "construct"
    /\ method = ""
    /\ err = ""
    /\ rules = <<>>
    /\ known_cases = {}
    /\ parallel = TRUE
    /\ jobs = 0
    /\ stack = <<>>
    /\ cur = 0
    /\ q = <<>>
    /\ unfinished = 0
    /\ wstate = <<>>
    /\ wcur = <<>>
    /\ tstate = <<>>
    /\ interrupted = FALSE
    /\ n = 0
    /\ sentinels = 0
    /\ exit_status = -1
    /\ generators_used = {}
    /\ solutions_used = {}
    /\ default_solution = "None"
    /\ built = <<>>
    /\ RetryIdle
    /\ GenIdle

Init ==
    /\ yaml \in Yamls
    /\ sha512 = Sha512Reference
    /\ Unconstructed

\* GeneratorConfig.__init__: the root keys, then parse() of the whole tree.  An
\* assertion that fails leaves no GeneratorConfig, so no method of it runs.
Construct ==
    /\ pc = "construct"
    /\ LET r == ParseTree(yaml)
       IN  /\ pc' = IF r.ok THEN "constructed" ELSE "fatal"
           /\ err' = r.err
           /\ rules' = IF r.ok THEN r.rules ELSE <<>>
           /\ known_cases' = IF r.ok THEN r.known_cases ELSE {}
           /\ tstate' = IF r.ok THEN [i \in 1..Len(r.rules) |-> "new"] ELSE <<>>
    /\ parallel' \in BOOLEAN
    /\ UNCHANGED <<sha512, yaml, method, jobs, stack, cur, n>>
    /\ UNCHANGED poolVars
    /\ UNCHANGED intVars
    /\ UNCHANGED buildVars
    /\ UNCHANGED retryVars
    /\ UNCHANGED genVars

\* ------------------------------------------------------------ Directory.walk
\* dir_last as run() and clean() pass it; build() passes dir_f=None.
RunDirLast == FALSE
CleanDirLast_false == FALSE
CleanDirLast == TRUE
DirLast == IF method = "clean" THEN CleanDirLast ELSE RunDirLast
HasDirF == method # "build"

Top == stack[Len(stack)]
LoopEnded == Top.idx > Len(rules[Top.dir].data)
Child == rules[Top.dir].data[Top.idx]
Advance(stk) == [stk EXCEPT ![Len(stk)].idx = @ + 1]
Push(stk, d) == Append(stk, [dir |-> d, idx |-> 1])
Pop(stk) == SubSeq(stk, 1, Len(stk) - 1)
RootFrame == <<[dir |-> 1, idx |-> 1]>>

IsTestcase(i) == rules[i].kind = "testcase"
IsDirectory(i) == rules[i].kind = "directory"

\* ------------------------------------------------------ GeneratorConfig.run
num_worker_threads_more == jobs + 1
num_worker_threads == jobs

\* Queue.join() returns when every item put has been marked done.
QueueJoined(unf) == unf = 0

\* generate_dir: q.join() before d.generate().
DirMayStart_nojoin(unf) == TRUE
DirMayStart(unf) == QueueJoined(unf)

\* worker: q.task_done() follows testcase.generate().
task_done_before_generate == FALSE
task_done_after_generate == TRUE

\* except KeyboardInterrupt: one q.put(None) per worker thread.
HandlerStops_short == num_worker_threads - 1
HandlerStops == num_worker_threads

\* The input files a directory's generate may find on disk and not in the tree.
StrayNames == {"z"}

CallRun ==
    /\ pc = "constructed"
    /\ method' = "run"
    /\ jobs' \in 0..MaxJobs
    /\ pc' = IF parallel THEN "spawn" ELSE "walk"
    /\ stack' = RootFrame
    /\ n' = 0
    /\ UNCHANGED <<rules, cur, tstate>>
    /\ UNCHANGED parseVars
    /\ UNCHANGED buildVars
    /\ UNCHANGED retryVars
    /\ UNCHANGED genVars
    /\ UNCHANGED poolVars
    /\ UNCHANGED intVars

\* for _ in range(num_worker_threads): threading.Thread(target=worker).start()
SpawnThread ==
    /\ pc = "spawn"
    /\ n < num_worker_threads
    /\ wstate' = Append(wstate, "idle")
    /\ wcur' = Append(wcur, 0)
    /\ n' = n + 1
    /\ UNCHANGED <<pc, method, jobs, rules, stack, cur, tstate, q, unfinished>>
    /\ UNCHANGED parseVars
    /\ UNCHANGED buildVars
    /\ UNCHANGED retryVars
    /\ UNCHANGED genVars
    /\ UNCHANGED intVars

SpawnDone ==
    /\ pc = "spawn"
    /\ n >= num_worker_threads
    /\ pc' = "walk"
    /\ n' = 0
    /\ UNCHANGED <<method, jobs, rules, stack, cur, tstate>>
    /\ UNCHANGED parseVars
    /\ UNCHANGED buildVars
    /\ UNCHANGED retryVars
    /\ UNCHANGED genVars
    /\ UNCHANGED poolVars
    /\ UNCHANGED intVars

\* testcase_f of the parallel run: lambda t: q.put(t)
WalkPut ==
    /\ pc = "walk" /\ method = "run" /\ parallel
    /\ ~LoopEnded /\ IsTestcase(Child)
    /\ q' = Append(q, Child)
    /\ unfinished' = unfinished + 1
    /\ tstate' = [tstate EXCEPT ![Child] = "queued"]
    /\ stack' = Advance(stack)
    /\ UNCHANGED <<pc, method, jobs, rules, cur, n, wstate, wcur>>
    /\ UNCHANGED parseVars
    /\ UNCHANGED buildVars
    /\ UNCHANGED retryVars
    /\ UNCHANGED genVars
    /\ UNCHANGED intVars

\* testcase_f run by the main thread: t.generate (sequential run) or x.clean.
WalkTestcase ==
    /\ pc = "walk"
    /\ \/ method = "run" /\ ~parallel
       \/ method = "clean"
    /\ ~LoopEnded /\ IsTestcase(Child)
    /\ pc' = "tc"
    /\ cur' = Child
    /\ tstate' = [tstate EXCEPT ![Child] = "running"]
    /\ UNCHANGED <<method, jobs, rules, stack, n>>
    /\ UNCHANGED parseVars
    /\ UNCHANGED buildVars
    /\ UNCHANGED retryVars
    /\ UNCHANGED genVars
    /\ UNCHANGED poolVars
    /\ UNCHANGED intVars

\* testcase_f returns: generate ends done or failed, clean ends done.
TcEnd ==
    /\ pc = "tc"
    /\ \E outcome \in (IF method = "run" THEN {"done", "failed"} ELSE {"done"}) :
           tstate' = [tstate EXCEPT ![cur] = outcome]
    /\ stack' = Advance(stack)
    /\ pc' = "walk"
    /\ UNCHANGED <<method, jobs, rules, cur, n>>
    /\ UNCHANGED parseVars
    /\ UNCHANGED buildVars
    /\ UNCHANGED retryVars
    /\ UNCHANGED genVars
    /\ UNCHANGED poolVars
    /\ UNCHANGED intVars

\* testcase_f raises: the exception leaves walk() and the method.
TcRaise ==
    /\ pc = "tc"
    /\ tstate' = [tstate EXCEPT ![cur] = "raised"]
    /\ pc' = "crashed"
    /\ UNCHANGED <<method, jobs, rules, stack, cur, n>>
    /\ UNCHANGED parseVars
    /\ UNCHANGED buildVars
    /\ UNCHANGED retryVars
    /\ UNCHANGED genVars
    /\ UNCHANGED poolVars
    /\ UNCHANGED intVars

\* walk: a directory child, dir_f before d.walk (not dir_last).
WalkDirPre ==
    /\ pc = "walk" /\ method \in {"run", "clean"}
    /\ ~LoopEnded /\ IsDirectory(Child)
    /\ ~DirLast /\ HasDirF
    /\ cur' = Child
    /\ IF method = "run" /\ parallel
       THEN pc' = "dirjoin" /\ tstate' = tstate
       ELSE pc' = "dir" /\ tstate' = [tstate EXCEPT ![Child] = "running"]
    /\ UNCHANGED <<method, jobs, rules, stack, n>>
    /\ UNCHANGED parseVars
    /\ UNCHANGED buildVars
    /\ UNCHANGED retryVars
    /\ UNCHANGED genVars
    /\ UNCHANGED poolVars
    /\ UNCHANGED intVars

\* walk: a directory child entered without a call of dir_f before it.
WalkDescend ==
    /\ pc = "walk"
    /\ ~LoopEnded /\ IsDirectory(Child)
    /\ DirLast \/ ~HasDirF
    /\ stack' = Push(stack, Child)
    /\ UNCHANGED <<pc, method, jobs, rules, cur, n, tstate>>
    /\ UNCHANGED parseVars
    /\ UNCHANGED buildVars
    /\ UNCHANGED retryVars
    /\ UNCHANGED genVars
    /\ UNCHANGED poolVars
    /\ UNCHANGED intVars

\* generate_dir: q.join() returns, d.generate() starts on the main thread.
DirJoin ==
    /\ pc = "dirjoin"
    /\ DirMayStart(unfinished)
    /\ pc' = "dir"
    /\ tstate' = [tstate EXCEPT ![cur] = "running"]
    /\ UNCHANGED <<method, jobs, rules, stack, cur, n>>
    /\ UNCHANGED parseVars
    /\ UNCHANGED buildVars
    /\ UNCHANGED retryVars
    /\ UNCHANGED genVars
    /\ UNCHANGED poolVars
    /\ UNCHANGED intVars

\* Directory.generate adopting the stray input file `name` ("" for none):
\* known_cases.add(relpath); d.data.append(TestcaseRule(problem, name, '', d)).
Adopted(name) ==
    [kind |-> "testcase", name |-> name, path |-> PathJoin(rules[cur].path, name),
     parent |-> cur, manual |-> TRUE, generator |-> "",
     solution |-> rules[cur].solution, visualizer |-> rules[cur].visualizer,
     random_salt |-> rules[cur].random_salt, retries |-> rules[cur].retries,
     seed |-> -1, declared |-> [key \in ConfigKeys |-> "inherit"],
     numbered |-> FALSE, includes |-> <<>>, data |-> <<>>]

\* dir_f returns: Directory.generate (with the cases it adopts) or Directory.clean.
DirEnd ==
    /\ pc = "dir"
    /\ \E name \in {""} \cup
            (IF method = "run"
             THEN {s \in StrayNames : PathJoin(rules[cur].path, s) \notin known_cases}
             ELSE {}) :
        IF name = ""
        THEN /\ rules' = rules
             /\ known_cases' = known_cases
             /\ tstate' = [tstate EXCEPT ![cur] = "done"]
        ELSE /\ rules' = Append([rules EXCEPT ![cur].data = Append(@, Len(rules) + 1)],
                                Adopted(name))
             /\ known_cases' = known_cases \cup {PathJoin(rules[cur].path, name)}
             /\ tstate' = Append([tstate EXCEPT ![cur] = "done"], "new")
    /\ stack' = IF DirLast THEN Advance(stack) ELSE Push(stack, cur)
    /\ pc' = "walk"
    /\ UNCHANGED <<sha512, yaml, err, parallel, method, jobs, cur, n>>
    /\ UNCHANGED poolVars
    /\ UNCHANGED intVars
    /\ UNCHANGED buildVars
    /\ UNCHANGED retryVars
    /\ UNCHANGED genVars

\* dir_f raises (assert False on an include that is not there, an OSError).
DirRaise ==
    /\ pc = "dir"
    /\ tstate' = [tstate EXCEPT ![cur] = "raised"]
    /\ pc' = "crashed"
    /\ UNCHANGED <<method, jobs, rules, stack, cur, n>>
    /\ UNCHANGED parseVars
    /\ UNCHANGED buildVars
    /\ UNCHANGED retryVars
    /\ UNCHANGED genVars
    /\ UNCHANGED poolVars
    /\ UNCHANGED intVars

\* Where the method goes on when the walk of the root returns.
AfterWalk ==
    CASE method = "run" /\ parallel -> "join"
      [] method = "build" -> "build_programs"
      [] OTHER -> "finalize"

\* walk: the for loop over self.data ends.
WalkReturn ==
    /\ pc = "walk"
    /\ LoopEnded
    /\ IF Len(stack) = 1
       THEN pc' = AfterWalk /\ stack' = <<>> /\ cur' = cur /\ tstate' = tstate
       ELSE IF DirLast /\ HasDirF
            THEN /\ pc' = "dir"
                 /\ cur' = Top.dir
                 /\ tstate' = [tstate EXCEPT ![Top.dir] = "running"]
                 /\ stack' = Pop(stack)
            ELSE /\ pc' = pc
                 /\ cur' = cur
                 /\ tstate' = tstate
                 /\ stack' = Advance(Pop(stack))
    /\ UNCHANGED <<method, jobs, rules, n>>
    /\ UNCHANGED parseVars
    /\ UNCHANGED buildVars
    /\ UNCHANGED retryVars
    /\ UNCHANGED genVars
    /\ UNCHANGED poolVars
    /\ UNCHANGED intVars

\* q.join() after the walk.
FinalJoin ==
    /\ pc = "join"
    /\ QueueJoined(unfinished)
    /\ pc' = "stop"
    /\ n' = 0
    /\ UNCHANGED <<method, jobs, rules, stack, cur, tstate>>
    /\ UNCHANGED parseVars
    /\ UNCHANGED buildVars
    /\ UNCHANGED retryVars
    /\ UNCHANGED genVars
    /\ UNCHANGED poolVars
    /\ UNCHANGED intVars

\* for _ in range(num_worker_threads): q.put(None)
StopPut ==
    /\ pc = "stop"
    /\ n < num_worker_threads
    /\ q' = Append(q, 0)
    /\ unfinished' = unfinished + 1
    /\ n' = n + 1
    /\ UNCHANGED <<pc, method, jobs, rules, stack, cur, tstate, wstate, wcur>>
    /\ UNCHANGED parseVars
    /\ UNCHANGED buildVars
    /\ UNCHANGED retryVars
    /\ UNCHANGED genVars
    /\ UNCHANGED intVars

StopDone ==
    /\ pc = "stop"
    /\ n >= num_worker_threads
    /\ pc' = "jointhreads"
    /\ n' = 0
    /\ UNCHANGED <<method, jobs, rules, stack, cur, tstate>>
    /\ UNCHANGED parseVars
    /\ UNCHANGED buildVars
    /\ UNCHANGED retryVars
    /\ UNCHANGED genVars
    /\ UNCHANGED poolVars
    /\ UNCHANGED intVars

\* for t in threads: t.join()
JoinThread ==
    /\ pc \in {"jointhreads", "h_join"}
    /\ n < Len(wstate)
    /\ wstate[n + 1] \in {"stopped", "dead"}
    /\ n' = n + 1
    /\ UNCHANGED <<pc, method, jobs, rules, stack, cur, tstate>>
    /\ UNCHANGED parseVars
    /\ UNCHANGED buildVars
    /\ UNCHANGED retryVars
    /\ UNCHANGED genVars
    /\ UNCHANGED poolVars
    /\ UNCHANGED intVars

JoinDone ==
    /\ pc = "jointhreads"
    /\ n >= Len(wstate)
    /\ pc' = "finalize"
    /\ n' = 0
    /\ UNCHANGED <<method, jobs, rules, stack, cur, tstate>>
    /\ UNCHANGED parseVars
    /\ UNCHANGED buildVars
    /\ UNCHANGED retryVars
    /\ UNCHANGED genVars
    /\ UNCHANGED poolVars
    /\ UNCHANGED intVars

\* bar.finalize(): the method returns.
Finalize ==
    /\ pc = "finalize"
    /\ pc' = "done"
    /\ UNCHANGED <<method, jobs, rules, stack, cur, tstate, n>>
    /\ UNCHANGED parseVars
    /\ UNCHANGED buildVars
    /\ UNCHANGED retryVars
    /\ UNCHANGED genVars
    /\ UNCHANGED poolVars
    /\ UNCHANGED intVars

\* KeyboardInterrupt raised in the main thread inside the try block of the
\* parallel run; a d.generate() in progress is cut short.
TryPcs == {"walk", "dirjoin", "dir", "join", "stop", "jointhreads"}

Interrupt ==
    /\ method = "run" /\ parallel
    /\ pc \in TryPcs
    /\ ~interrupted
    /\ interrupted' = TRUE
    /\ pc' = "h_stop"
    /\ n' = 0
    /\ tstate' = IF pc = "dir" THEN [tstate EXCEPT ![cur] = "aborted"] ELSE tstate
    /\ UNCHANGED <<method, jobs, rules, stack, cur, sentinels, exit_status>>
    /\ UNCHANGED parseVars
    /\ UNCHANGED buildVars
    /\ UNCHANGED retryVars
    /\ UNCHANGED genVars
    /\ UNCHANGED poolVars

\* except KeyboardInterrupt: for _ in range(num_worker_threads): q.put(None)
HandlerPut ==
    /\ pc = "h_stop"
    /\ n < HandlerStops
    /\ q' = Append(q, 0)
    /\ unfinished' = unfinished + 1
    /\ n' = n + 1
    /\ sentinels' = sentinels + 1
    /\ UNCHANGED <<pc, method, jobs, rules, stack, cur, tstate, wstate, wcur,
                   interrupted, exit_status>>
    /\ UNCHANGED parseVars
    /\ UNCHANGED buildVars
    /\ UNCHANGED retryVars
    /\ UNCHANGED genVars

HandlerPutDone ==
    /\ pc = "h_stop"
    /\ n >= HandlerStops
    /\ pc' = "h_join"
    /\ n' = 0
    /\ UNCHANGED <<method, jobs, rules, stack, cur, tstate>>
    /\ UNCHANGED parseVars
    /\ UNCHANGED buildVars
    /\ UNCHANGED retryVars
    /\ UNCHANGED genVars
    /\ UNCHANGED poolVars
    /\ UNCHANGED intVars

\* except KeyboardInterrupt: the threads are joined, then exit(1).
HandlerExit ==
    /\ pc = "h_join"
    /\ n >= Len(wstate)
    /\ pc' = "exit"
    /\ exit_status' = 1
    /\ UNCHANGED <<method, jobs, rules, stack, cur, tstate, n, interrupted, sentinels>>
    /\ UNCHANGED parseVars
    /\ UNCHANGED buildVars
    /\ UNCHANGED retryVars
    /\ UNCHANGED genVars
    /\ UNCHANGED poolVars

\* TestcaseRule.generate: cwd = config.tmpdir / problem.name / 'data' / t.path
ScratchDir(r) == <<"tmpdir", "problem", "data">> \o r.path

\* queue.Queue.get: the item is removed from the queue
q_get_peek(items) == items
q_get(items) == Tail(items)

\* worker: testcase = q.get(); if testcase is None: break
WorkerGet(w) ==
    /\ w \in 1..Len(wstate)
    /\ wstate[w] = "idle"
    /\ q # <<>>
    /\ q' = q_get(q)
    /\ IF Head(q) = 0
       THEN /\ wstate' = [wstate EXCEPT ![w] = "stopped"]
            /\ UNCHANGED <<wcur, tstate, unfinished>>
       ELSE /\ wstate' = [wstate EXCEPT ![w] = "busy"]
            /\ wcur' = [wcur EXCEPT ![w] = Head(q)]
            /\ tstate' = [tstate EXCEPT ![Head(q)] = "running"]
            /\ unfinished' = IF task_done_after_generate THEN unfinished
                              ELSE unfinished - 1
    /\ UNCHANGED <<pc, method, jobs, rules, stack, cur, n>>
    /\ UNCHANGED parseVars
    /\ UNCHANGED buildVars
    /\ UNCHANGED retryVars
    /\ UNCHANGED genVars
    /\ UNCHANGED intVars

\* worker: testcase.generate() returns (done, or failed after bar.error), then
\* q.task_done().
WorkerEnd(w) ==
    /\ w \in 1..Len(wstate)
    /\ wstate[w] = "busy"
    /\ \E outcome \in {"done", "failed"} :
           tstate' = [tstate EXCEPT ![wcur[w]] = outcome]
    /\ wstate' = [wstate EXCEPT ![w] = "idle"]
    /\ wcur' = [wcur EXCEPT ![w] = 0]
    /\ unfinished' = IF task_done_after_generate THEN unfinished - 1 ELSE unfinished
    /\ UNCHANGED <<pc, method, jobs, rules, stack, cur, n, q>>
    /\ UNCHANGED parseVars
    /\ UNCHANGED buildVars
    /\ UNCHANGED retryVars
    /\ UNCHANGED genVars
    /\ UNCHANGED intVars

\* worker: testcase.generate() raises; the thread ends without q.task_done().
WorkerRaise(w) ==
    /\ w \in 1..Len(wstate)
    /\ wstate[w] = "busy"
    /\ tstate' = [tstate EXCEPT ![wcur[w]] = "raised"]
    /\ wstate' = [wstate EXCEPT ![w] = "dead"]
    /\ UNCHANGED <<pc, method, jobs, rules, stack, cur, n, q, unfinished, wcur>>
    /\ UNCHANGED parseVars
    /\ UNCHANGED buildVars
    /\ UNCHANGED retryVars
    /\ UNCHANGED genVars
    /\ UNCHANGED intVars

\* ---------------------------------------------------- GeneratorConfig.clean
CallClean ==
    /\ pc = "constructed"
    /\ method' = "clean"
    /\ pc' = "walk"
    /\ stack' = RootFrame
    /\ UNCHANGED <<jobs, rules, cur, tstate, n>>
    /\ UNCHANGED parseVars
    /\ UNCHANGED buildVars
    /\ UNCHANGED retryVars
    /\ UNCHANGED genVars
    /\ UNCHANGED poolVars
    /\ UNCHANGED intVars

\* ---------------------------------------------------- GeneratorConfig.build
\* resolve_path: the path relative to the problem root.
resolve_path(path) ==
    IF Len(path) >= 1 /\ SubSeq(path, 1, 1) = "/"
    THEN SubSeq(path, 2, Len(path))
    ELSE "generators/" \o path

\* Invocation.__init__: self.program_path
program_path(string) == resolve_path(Command(string))

\* get_default_solution: what it may return, one of the accepted submissions
\* (random.sample of the glob).
get_default_solution == {"submissions/accepted/x", "submissions/accepted/y"}

\* Solution(...): the invocation of the submission, by its command.
Solution(submission) == "/" \o submission

\* if default_solution is None
NeedsDefault_always(ds) == TRUE
NeedsDefault(ds) == ds = "None"

CallBuild ==
    /\ pc = "constructed"
    /\ method' = "build"
    /\ pc' = "walk"
    /\ stack' = RootFrame
    /\ generators_used' = {}
    /\ solutions_used' = {}
    /\ default_solution' = "None"
    /\ built' = built
    /\ UNCHANGED <<jobs, rules, cur, tstate, n>>
    /\ UNCHANGED parseVars
    /\ UNCHANGED poolVars
    /\ UNCHANGED intVars
    /\ UNCHANGED retryVars
    /\ UNCHANGED genVars

\* testcase_f of build(): collect_programs(t)
WalkCollect ==
    /\ pc = "walk" /\ method = "build"
    /\ ~LoopEnded /\ IsTestcase(Child)
    /\ \E submission \in get_default_solution :
       LET t == rules[Child]
           new_default == IF NeedsDefault(default_solution) THEN Solution(submission)
                          ELSE default_solution
       IN  /\ generators_used' = IF ~t.manual
                                 THEN generators_used \cup {program_path(t.generator)}
                                 ELSE generators_used
           /\ CASE t.solution = "None" ->
                     /\ solutions_used' = solutions_used
                     /\ default_solution' = default_solution
                     /\ rules' = rules
                [] t.solution = "True" ->
                     /\ default_solution' = new_default
                     /\ rules' = [rules EXCEPT ![Child].solution = new_default]
                     /\ solutions_used' = solutions_used \cup {program_path(new_default)}
                [] OTHER ->
                     /\ solutions_used' = solutions_used \cup {program_path(t.solution)}
                     /\ default_solution' = default_solution
                     /\ rules' = rules
    /\ stack' = Advance(stack)
    /\ built' = built
    /\ UNCHANGED <<pc, method, jobs, cur, tstate, n>>
    /\ UNCHANGED parseVars
    /\ UNCHANGED poolVars
    /\ UNCHANGED intVars
    /\ UNCHANGED retryVars
    /\ UNCHANGED genVars

\* build_programs(GeneratorInvocation, generators_used): the first pass of
\* `for path in program_paths` reads program_path, which nothing binds.
BuildProgramsLoop ==
    /\ pc = "build_programs"
    /\ generators_used # {}
    /\ pc' = "crashed"
    /\ UNCHANGED <<method, jobs, rules, stack, cur, tstate, n>>
    /\ UNCHANGED parseVars
    /\ UNCHANGED poolVars
    /\ UNCHANGED intVars
    /\ UNCHANGED buildVars
    /\ UNCHANGED retryVars
    /\ UNCHANGED genVars

\* build_programs(GeneratorInvocation, generators_used) with nothing to loop
\* over: ProgressBar('Build ' + program_type.subdir, ...) reads an attribute
\* that the Invocation classes do not have.
BuildProgramsBar ==
    /\ pc = "build_programs"
    /\ generators_used = {}
    /\ pc' = "crashed"
    /\ UNCHANGED <<method, jobs, rules, stack, cur, tstate, n>>
    /\ UNCHANGED parseVars
    /\ UNCHANGED poolVars
    /\ UNCHANGED intVars
    /\ UNCHANGED buildVars
    /\ UNCHANGED retryVars
    /\ UNCHANGED genVars

\* ---------------------------------------------- GeneratorInvocation.run
\* t.seed: a few of the values below 2**31
Seeds == 0..MaxSeed
RetryValues == (-1)..MaxRetries

\* What the generator process did: its exit status, and where it wrote an
\* input: nowhere, to stdout, to {name}.in, or to both.
ExecOutcomes == {"ACCEPTED", "ERROR", "TIMEOUT"} \X {"none", "stdout", "file", "both"}

\* Generator.run: if stdout_path.read_text() / in_path.is_file()
StdoutWritten(wrote) == wrote \in {"stdout", "both"}
InPathIsFile(wrote) == wrote \in {"file", "both"}

\* Generator.run: stdout is empty and {name}.in was not written.
NoInput_never(wrote) == FALSE
NoInput(wrote) == ~StdoutWritten(wrote) /\ ~InPathIsFile(wrote)

\* Generator.run: where {name}.in comes from when run returns: stdout is renamed
\* to it only if the process has ended well and the file is not there.
InputFrom(status, wrote) ==
    IF InPathIsFile(wrote) THEN "file"
    ELSE IF status = "ACCEPTED" /\ StdoutWritten(wrote) THEN "stdout"
    ELSE "none"

\* Generator.run: result.retry is set for a status that is neither a timeout
\* nor a success.
ResultRetry_timeout(status) == status # "ACCEPTED"
ResultRetry(status) == status = "ERROR"

\* Generator.run: the ExecResult of one execution with the given seed.
GeneratorRun(outcome, s) ==
    [status |-> CASE outcome[1] = "TIMEOUT" -> "TIMEOUT"
                  [] outcome[1] = "ERROR" -> "ERROR"
                  [] OTHER -> IF NoInput(outcome[2]) THEN "REJECTED" ELSE "ACCEPTED",
     retry |-> ResultRetry(outcome[1]),
     seed |-> s,
     exit |-> outcome[1],
     wrote |-> outcome[2],
     input |-> InputFrom(outcome[1], outcome[2]),
     warned |-> (outcome[1] = "ACCEPTED" /\ StdoutWritten(outcome[2])
                 /\ InPathIsFile(outcome[2]))]

\* for retry in range(retries): k is one of the values of the loop variable.
InRange_short(k, limit) == k < limit - 1
InRange(k, limit) == k < limit

\* seed=seed+retry
AttemptSeed_fixed(s, r) == s
AttemptSeed(s, r) == s + r

\* The state of GeneratorConfig while only GeneratorInvocation.run is looked at.
NoRun ==
    /\ yaml = EmptyDir
    /\ pc = "none"
    /\ method = ""
    /\ err = ""
    /\ rules = <<>>
    /\ parallel = TRUE
    /\ jobs = 0
    /\ stack = <<>>
    /\ cur = 0
    /\ q = <<>>
    /\ unfinished = 0
    /\ wstate = <<>>
    /\ wcur = <<>>
    /\ tstate = <<>>
    /\ interrupted = FALSE
    /\ n = 0
    /\ sentinels = 0
    /\ exit_status = -1
    /\ generators_used = {}
    /\ solutions_used = {}
    /\ default_solution = "None"
    /\ built = <<>>
NoConfig == known_cases = {} /\ NoRun
ConfigIdle == sha512 = Sha512Reference /\ NoConfig

configVars == <<sha512, yaml, pc, method, err, rules, known_cases, parallel, jobs, stack, cur,
                q, unfinished, wstate, wcur, tstate, interrupted, n, sentinels,
                exit_status>>

\* t.generator.run(cwd, t.name, t.seed, t.config.retries) is entered.
RetryInit ==
    /\ ConfigIdle
    /\ seed \in Seeds
    /\ retries \in RetryValues
    /\ retry = -1
    /\ attempts = <<>>
    /\ result = NoResult
    /\ rpc = "loop"
    /\ reported = <<>>
    /\ GenIdle

\* One pass of `for retry in range(retries)`: the program runs with
\* seed+retry; a result that is not to be retried is returned.
RunAttempt ==
    /\ rpc = "loop"
    /\ InRange(retry + 1, retries)
    /\ \E outcome \in ExecOutcomes :
          LET r == GeneratorRun(outcome, AttemptSeed(seed, retry + 1))
          IN  /\ result' = r
              /\ attempts' = Append(attempts, r)
              /\ rpc' = IF ~r.retry THEN "returned" ELSE "loop"
    /\ retry' = retry + 1
    /\ UNCHANGED <<seed, retries, reported>>
    /\ UNCHANGED configVars
    /\ UNCHANGED buildVars
    /\ UNCHANGED genVars

\* The loop ends with every attempt to be retried: the error is logged and the
\* last result returned.
RunFailed ==
    /\ rpc = "loop"
    /\ ~InRange(retry + 1, retries)
    /\ result # NoResult
    /\ reported' = Append(reported, [times |-> IF retries > 1 THEN retry + 1 ELSE 1,
                                     err |-> result])
    /\ rpc' = "returned"
    /\ UNCHANGED <<seed, retries, retry, attempts, result>>
    /\ UNCHANGED configVars
    /\ UNCHANGED buildVars
    /\ UNCHANGED genVars

\* The loop ends without a pass (retries <= 0): result.err reads a local
\* that was never bound.
RunUnbound ==
    /\ rpc = "loop"
    /\ ~InRange(retry + 1, retries)
    /\ result = NoResult
    /\ rpc' = "raised"
    /\ UNCHANGED <<seed, retries, retry, attempts, result, reported>>
    /\ UNCHANGED configVars
    /\ UNCHANGED buildVars
    /\ UNCHANGED genVars

\* Two numbered testcases in a directory: {secret: {type: directory,
\* data: [{"1": "gen.py 10"}, {"2": "gen.py 20"}]}}
YamlExample ==
    D1(<<K("secret", L(<< <<K("1", Gen("gen.py 10"))>>, <<K("2", Gen("gen.py 20"))>> >>))>>)

\* hashlib.sha512 of the two commands: the low bits of the digests.
Sha512Tail ==
    ("gen.py 10" :> <<0, 1, 0, 0, 0, 1, 0, 1, 0, 1, 0, 0, 0, 0, 1, 0, 0, 0, 1, 1, 0, 0, 0, 1, 0, 1, 1, 0, 1, 0, 0, 1, 1, 0, 0, 0, 0, 1, 0, 0>>)
    @@ ("gen.py 20" :> <<1, 0, 1, 1, 1, 0, 0, 0, 0, 1, 1, 1, 0, 1, 1, 0, 1, 1, 1, 1, 0, 1, 1, 0, 1, 0, 0, 1, 1, 1, 0, 0, 0, 1, 1, 1, 1, 1, 0, 0>>)
\* A directory with two includes of the same leaf name: {a: {x: ''}, b: {x: ''},
\* c: {type: directory, include: [a/x, b/x]}}
YamlSameLeaf ==
    D1(<<K("a", D1(<<K("x", Manual)>>)), K("b", D1(<<K("x", Manual)>>)),
         K("c", Dir(<< <<"a", "x">>, <<"b", "x">> >>, "none", <<>>))>>)

\* Commands with no, one and several seed placeholders, and the trees of one
\* testcase with them.
SeedCommands ==
    {"g 1", "g {seed}", "g {seed:2}", "g{seed} {seed}", "g {seed} {seed:2}", "g {seed}{seed}",
     "g {seed:} {seed}"}
SeedYaml(cmd) == D1(<<K("a", Gen(cmd))>>)
Sha512Example ==
    [x \in DOMAIN Sha512Tail \cup HashInputs \cup SeedCommands |->
        IF x \in DOMAIN Sha512Tail
        THEN SubSeq(Sha512Tail[x], Len(Sha512Tail[x]) - HashBits + 1, Len(Sha512Tail[x]))
        ELSE [i \in 1..HashBits |-> IF i <= Len(x) THEN 1 ELSE i % 2]]

\* target = target_dir / (t.name + ext), target_dir = problem.path / 'data' / t.path.parent
TargetPath(r, ext) == <<"data">> \o SubSeq(r.path, 1, Len(r.path) - 1) \o <<r.name \o ext>>

\* The construction alone, over the trees for the inheritable keys and over
\* the hash functions, and of the two numbered testcases and of the commands
\* with seed placeholders.
ConfigInit ==
    /\ \/ yaml \in ConfigYamls /\ sha512 \in HashFunctions
       \/ yaml \in {YamlExample, YamlSameLeaf} \cup {SeedYaml(cmd) : cmd \in SeedCommands}
          /\ sha512 = Sha512Example
    /\ Unconstructed

ConfigSpec == ConfigInit /\ [][Construct]_vars

RetryNext == RunAttempt \/ RunFailed \/ RunUnbound

RetrySpec == RetryInit /\ [][RetryNext]_vars

\* ---------------------------------------------------- TestcaseRule.generate
\* One testcase rule t, generated over and over: the files of the testcase in the
\* data tree, the scratch directory cwd with its meta_.yaml, and the timestamps
\* of the programs.  A manual testcase is one with an empty yaml, whose source
\* is its own .in file in the data tree.

\* The calls of generate looked at.
MaxRuns == 2

\* Invocation.SEED_REGEX: where its first match starts in a string, 0 if
\* nowhere.
SeedAt(string) ==
    LET at == {i \in 1..Len(string) : SeedLen(string, i) > 0}
    IN  IF at = {} THEN 0 ELSE CHOOSE i \in at : \A j \in at : i <= j

\* SEED_REGEX.sub(str(seed), string)
RECURSIVE SeedSub(_, _)
SeedSub(value, string) ==
    LET i == SeedAt(string)
    IN  IF i = 0 THEN string
        ELSE SubSeq(string, 1, i - 1) \o ToString(value)
                 \o SeedSub(value, SubSeq(string, i + SeedLen(string, i), Len(string)))

\* if seed: of cache_command and _sub_args; seed=None is -1 here.
Truthy(value) == value > 0

\* Invocation.cache_command(seed=None)
cache_command_unseeded(command_string, value) == command_string
cache_command(command_string, value) ==
    IF Truthy(value) THEN SeedSub(value, command_string) ELSE command_string

\* Invocation._sub_args(name=name, seed=seed), for a command without {name}
sub_args(command_string, value) ==
    IF Truthy(value) THEN SeedSub(value, command_string) ELSE command_string

\* Invocation.NAME_REGEX = \{name\}: where its first match starts, 0 if nowhere.
NameAt(string) ==
    LET at == {i \in 1..Len(string) : i + 5 <= Len(string) /\ SubSeq(string, i, i + 5) = "{name}"}
    IN  IF at = {} THEN 0 ELSE CHOOSE i \in at : \A j \in at : i <= j

\* NAME_REGEX.sub(str(name), arg)
RECURSIVE NameSub(_, _)
NameSub(name, string) ==
    LET i == NameAt(string)
    IN  IF i = 0 THEN string
        ELSE SubSeq(string, 1, i - 1) \o name \o NameSub(name, SubSeq(string, i + 6, Len(string)))

\* Invocation._sub_args: sub(arg), `if name:` then `if seed:`
sub(arg, name, value) ==
    LET named == IF name # "" THEN NameSub(name, arg) ELSE arg
    IN  IF Truthy(value) THEN SeedSub(value, named) ELSE named

\* The files a generator leaves: what it writes is taken to depend on its
\* arguments alone.
GeneratedInput(args) == "in(" \o args \o ")"
GeneratedAnswer(args) == "ans(" \o args \o ")"

\* if t.config.solution: / if t.config.visualizer:
Configured(invocation) == invocation # "None"

\* up_to_date(): t.cache_data as a set of <<key, value>>.
CacheData(r) ==
    (IF r.manual THEN {<<"source", r.source>>}
     ELSE {<<"generator", cache_command(r.generator, r.seed)>>})
    \cup (IF Configured(r.solution) THEN {<<"solution", cache_command(r.solution, -1)>>} ELSE {})
    \cup (IF Configured(r.visualizer) THEN {<<"visualizer", cache_command(r.visualizer, -1)>>}
          ELSE {})

max(a, b) == IF a >= b THEN a ELSE b

\* up_to_date(): last_change
LastChange(r, files, stamps) ==
    LET first == max(0, IF r.manual THEN files[".in"].ctime ELSE stamps.generator)
        second == IF Configured(r.solution) THEN max(first, stamps.solution) ELSE first
    IN  IF Configured(r.visualizer) THEN max(second, stamps.visualizer) ELSE second

\* meta_path.stat().st_ctime >= last_change
Fresh_newer(ctime, last_change) == ctime > last_change
Fresh(ctime, last_change) == ctime >= last_change

\* up_to_date(): what it returns
UpToDate(r, files, stamps, m) ==
    IF m = NoMeta THEN FALSE
    ELSE Fresh(m.ctime, LastChange(r, files, stamps)) /\ m.data = CacheData(r)

\* up_to_date() raises: stat() of a manual source that is missing, or
\* .program of the solution True that build() has not replaced.
UpToDateRaises(r, files) ==
    \/ r.manual /\ files[".in"] = NoFile
    \/ r.solution = "True"

\* forced, from problem.settings and the directory of the testcase
Forced(r, st) == IF r.in_sample THEN st.force /\ st.samples ELSE st.force

\* One extension of the loop over config.KNOWN_DATA_EXTENSIONS: what is done
\* with the file of the scratch directory and the one of the data tree.
Overwrite_always(forced) == TRUE
Overwrite(forced) == forced
Remove(forced) == forced
MaterializeCase(source, file, forced) ==
    IF source # "none"
    THEN IF file # NoFile
         THEN IF source = file.content THEN "identical"
              ELSE IF ~Overwrite(forced) THEN "SKIPPED different" ELSE "CHANGED"
         ELSE "NEW"
    ELSE IF file # NoFile
         THEN IF ~Remove(forced) THEN "SKIPPED missing" ELSE "REMOVED"
         ELSE "nothing"

\* skipped = True
SetsSkipped(case) == case = "SKIPPED different"

\* for f in cwd.glob('*'): if f.name == 'meta_': continue
CleanKeeps(name) == name = "meta_"

\* The rule t of a testcase, as TestcaseRule.__init__ makes it.
TestcaseRule(manual, command, salt, solution, visualizer, in_sample, hash) ==
    [manual |-> manual, path |-> PathJoin(<<"secret">>, "a"),
     source |-> IF manual THEN <<"data">> \o PathJoin(<<"secret">>, "a" \o ".in") ELSE <<>>,
     generator |-> IF manual THEN "" ELSE command,
     random_salt |-> salt,
     seed |-> IF manual THEN -1 ELSE SeedOf(hash[seed_value(salt, command)]),
     solution |-> solution, visualizer |-> visualizer, in_sample |-> in_sample]

\* The commands, salts and hash functions of the testcases generated.
GenCommands == {"g {seed}", "g 1"}
GenSalts == {"", "x"}
GenHashInputs == {salt \o cmd : salt \in GenSalts, cmd \in GenCommands}
DigestOf(seedbits) == [i \in 1..HashBits |-> IF i <= HashBits - SeedBits THEN 1 ELSE seedbits[i]]
GenDigests ==
    {DigestOf([i \in 1..HashBits |-> 0]),
     DigestOf([i \in 1..HashBits |-> IF i = HashBits THEN 1 ELSE 0]),
     DigestOf([i \in 1..HashBits |-> IF i >= HashBits - 1 THEN 1 ELSE 0])}
GenHashFunctions ==
    {f \in [GenHashInputs -> GenDigests] : f["g 1"] = f["xg 1"] /\ f["g 1"] = f["g {seed}"]}
\* One of the functions, for the testcases whose command takes no seed.
GenHashReference == [x \in GenHashInputs |-> DigestOf([i \in 1..HashBits |-> 0])]

\* A file put in the data tree before the first call.
OtherFile == [content |-> "other", ctime |-> 0]

GenInit ==
    /\ sha512 \in GenHashFunctions
    /\ NoConfig
    /\ ScanIdle
    /\ RetryIdle
    /\ \E manual \in BOOLEAN, command \in GenCommands, in_sample \in BOOLEAN,
          solution \in {"None", "True", "/submissions/accepted/x"},
          visualizer \in {"None", "/visualizers/v"} :
           /\ manual => command = "g 1"
           /\ SeedAt(command) = 0 => sha512 = GenHashReference
           /\ rule = TestcaseRule(manual, command, "", solution, visualizer, in_sample, sha512)
    /\ settings \in {[force |-> FALSE, samples |-> FALSE], [force |-> TRUE, samples |-> FALSE],
                     [force |-> TRUE, samples |-> TRUE]}
    /\ target \in [Exts -> {NoFile, OtherFile}]
    /\ cwd = [ext \in Exts |-> "none"]
    /\ meta = NoMeta
    /\ timestamp = [generator |-> 0, solution |-> 0, visualizer |-> 0]
    /\ clock = 1
    /\ gpc = "idle"
    /\ runs = 0
    /\ cache_data = {}
    /\ skipped = FALSE
    /\ ended = ""
    /\ warned = {}
    /\ target0 = target
    /\ history = <<>>
    /\ change = "none"
    /\ invoked = {}

genRest == <<configVars, buildVars, retryVars, scanVars>>

\* generate returns or raises: the call is over.
Ends(how, warnings, files) ==
    /\ gpc' = "idle"
    /\ ended' = how
    /\ history' = Append(history, [ended |-> how, warned |-> warnings, seed |-> rule.seed,
                                   salt |-> rule.random_salt, change |-> change,
                                   modified |-> files # target0])
    /\ change' = "none"

\* t.generate(...) is called.
GenerateCall ==
    /\ gpc = "idle" /\ runs < MaxRuns
    /\ runs' = runs + 1
    /\ gpc' = "up_to_date"
    /\ ended' = "" /\ warned' = {} /\ skipped' = FALSE
    /\ target0' = target
    /\ UNCHANGED <<rule, settings, target, cwd, meta, timestamp, clock, cache_data,
                   history, change>>
    /\ invoked' = {}
    /\ UNCHANGED genRest

\* up_to_date() raises.
UpToDateRaise ==
    /\ gpc = "up_to_date"
    /\ UpToDateRaises(rule, target)
    /\ cache_data' = IF rule.manual THEN {} ELSE {<<"generator", cache_command(rule.generator, rule.seed)>>}
    /\ Ends("raised", {}, target)
    /\ UNCHANGED <<rule, settings, target, cwd, meta, timestamp, clock, runs, skipped,
                   warned, target0>>
    /\ UNCHANGED invoked
    /\ UNCHANGED genRest

\* if up_to_date(): bar.log('up to date'); return
UpToDateReturn ==
    /\ gpc = "up_to_date"
    /\ ~UpToDateRaises(rule, target)
    /\ cache_data' = CacheData(rule)
    /\ UpToDate(rule, target, timestamp, meta)
    /\ Ends("up to date", {}, target)
    /\ UNCHANGED <<rule, settings, target, cwd, meta, timestamp, clock, runs, skipped,
                   warned, target0>>
    /\ UNCHANGED invoked
    /\ UNCHANGED genRest

\* up_to_date() is False: on to "Generate .in".
UpToDateFalse ==
    /\ gpc = "up_to_date"
    /\ ~UpToDateRaises(rule, target)
    /\ cache_data' = CacheData(rule)
    /\ ~UpToDate(rule, target, timestamp, meta)
    /\ gpc' = "generate_in"
    /\ UNCHANGED <<rule, settings, target, cwd, meta, timestamp, clock, runs, skipped,
                   ended, warned, target0, history, change>>
    /\ UNCHANGED invoked
    /\ UNCHANGED genRest

\* if t.manual: the files next to the manual source are linked into cwd.  The
\* source is a file here, stat() having raised otherwise.
ManualLink ==
    /\ gpc = "generate_in" /\ rule.manual
    /\ cwd' = [ext \in Exts |-> IF target[ext] # NoFile THEN target[ext].content ELSE cwd[ext]]
    /\ gpc' = "validate_in"
    /\ UNCHANGED <<rule, settings, target, meta, timestamp, clock, runs, cache_data, skipped,
                   ended, warned, target0, history, change>>
    /\ UNCHANGED invoked
    /\ UNCHANGED genRest

\* else: if not t.generator.run(...): return.  The run empties cwd but for
\* meta_.yaml; a generator may write an answer next to the input.
GeneratorRuns ==
    /\ gpc = "generate_in" /\ ~rule.manual
    /\ \E ok \in BOOLEAN, answer \in BOOLEAN :
          LET args == sub_args(rule.generator, rule.seed)
          IN  /\ cwd' = [ext \in Exts |->
                            CASE ~ok -> "none"
                              [] ext = ".in" -> GeneratedInput(args)
                              [] OTHER -> IF answer THEN GeneratedAnswer(args) ELSE "none"]
              /\ invoked' = invoked \cup {<<"generator", ok>>}
              /\ IF ok THEN /\ gpc' = "validate_in"
                            /\ UNCHANGED <<ended, history, change>>
                 ELSE Ends("failed", {}, target)
    /\ UNCHANGED <<rule, settings, target, meta, timestamp, clock, runs, cache_data, skipped,
                   warned, target0>>
    /\ UNCHANGED genRest

\* if not validate.validate_testcase(problem, infile, ...): return
InputRejected_never(ok) == FALSE
InputRejected(ok) == ~ok
ValidateInput ==
    /\ gpc = "validate_in"
    /\ \E ok \in BOOLEAN :
          /\ invoked' = invoked \cup {<<"input_validators", ok>>}
          /\ IF InputRejected(ok) THEN Ends("failed", {}, target)
             ELSE /\ gpc' = "solution"
                  /\ UNCHANGED <<ended, history, change>>
    /\ UNCHANGED <<rule, settings, target, cwd, meta, timestamp, clock, runs, cache_data,
                   skipped, warned, target0>>
    /\ UNCHANGED genRest

\* if t.config.solution and not ans_path.is_file(): nothing binds ans_path, so
\* with a solution the NameError is raised.
SolutionUnbound ==
    /\ gpc = "solution"
    /\ Configured(rule.solution)
    /\ Ends("raised", {}, target)
    /\ UNCHANGED <<rule, settings, target, cwd, meta, timestamp, clock, runs, cache_data,
                   skipped, warned, target0>>
    /\ UNCHANGED invoked
    /\ UNCHANGED genRest

\* No solution: the answer is not made; on to the visualizer.
SolutionDisabled ==
    /\ gpc = "solution"
    /\ ~Configured(rule.solution)
    /\ gpc' = "visualize"
    /\ UNCHANGED <<rule, settings, target, cwd, meta, timestamp, clock, runs, cache_data,
                   skipped, ended, warned, target0, history, change>>
    /\ UNCHANGED invoked
    /\ UNCHANGED genRest

\* if t.config.visualizer: if not t.config.visualizer.run(...): return
Visualize ==
    /\ gpc = "visualize"
    /\ \E ok \in (IF Configured(rule.visualizer) THEN BOOLEAN ELSE {TRUE}) :
          /\ invoked' = IF Configured(rule.visualizer) THEN invoked \cup {<<"visualizer", ok>>}
                        ELSE invoked
          /\ IF ok THEN /\ gpc' = "materialize"
                        /\ UNCHANGED <<ended, history, change>>
             ELSE Ends("failed", {}, target)
    /\ UNCHANGED <<rule, settings, target, cwd, meta, timestamp, clock, runs, cache_data,
                   skipped, warned, target0>>
    /\ UNCHANGED genRest

\* for ext in config.KNOWN_DATA_EXTENSIONS: the files are put in the data tree.
Materialize ==
    /\ gpc = "materialize"
    /\ LET forced == Forced(rule, settings)
           case == [ext \in Exts |-> MaterializeCase(cwd[ext], target[ext], forced)]
       IN  /\ target' = [ext \in Exts |->
                            CASE case[ext] \in {"CHANGED", "NEW"} ->
                                     [content |-> cwd[ext], ctime |-> clock]
                              [] case[ext] = "REMOVED" -> NoFile
                              [] OTHER -> target[ext]]
           /\ cwd' = [ext \in Exts |->
                         IF case[ext] \in {"CHANGED", "NEW"} THEN "none" ELSE cwd[ext]]
           /\ warned' = {ext \in Exts : case[ext] \in {"SKIPPED different", "SKIPPED missing"}}
           /\ skipped' = \E ext \in Exts : SetsSkipped(case[ext])
    /\ gpc' = "clean"
    /\ UNCHANGED <<rule, settings, meta, timestamp, clock, runs, cache_data, ended, target0,
                   history, change>>
    /\ UNCHANGED invoked
    /\ UNCHANGED genRest

\* cwd is cleaned, meta_.yaml with it; if not skipped: yaml.dump(t.cache_data, ...)
CleanAndRecord ==
    /\ gpc = "clean"
    /\ cwd' = [ext \in Exts |-> "none"]
    /\ LET cleaned == IF CleanKeeps("meta_.yaml") THEN meta ELSE NoMeta
       IN  meta' = IF ~skipped THEN [data |-> cache_data, ctime |-> clock] ELSE cleaned
    /\ clock' = clock + 1
    /\ Ends(IF skipped THEN "skipped" ELSE "done", warned, target)
    /\ UNCHANGED <<rule, settings, target, timestamp, runs, cache_data, skipped, warned,
                   target0>>
    /\ UNCHANGED invoked
    /\ UNCHANGED genRest

\* Between two calls the generators.yaml is given another random_salt and
\* parsed again.
ChangeSalt ==
    /\ gpc = "idle" /\ runs >= 1 /\ runs < MaxRuns /\ change = "none"
    /\ ~rule.manual
    /\ \E salt \in GenSalts \ {rule.random_salt} :
           rule' = TestcaseRule(FALSE, rule.generator, salt, rule.solution, rule.visualizer,
                                rule.in_sample, sha512)
    /\ change' = "random_salt"
    /\ UNCHANGED <<settings, target, cwd, meta, timestamp, clock, gpc, runs, cache_data,
                   skipped, ended, warned, target0, history>>
    /\ UNCHANGED invoked
    /\ UNCHANGED genRest

\* Between two calls a program of the testcase is built again, or its manual
\* source is written again: in the tick meta_.yaml was written in, or later.
Touch ==
    /\ gpc = "idle" /\ runs >= 1 /\ runs < MaxRuns /\ change = "none"
    /\ \E now \in {clock - 1, clock} :
          \/ /\ rule.manual /\ target[".in"] # NoFile
             /\ target' = [target EXCEPT ![".in"].ctime = now]
             /\ UNCHANGED timestamp
          \/ /\ \E program \in {"generator", "solution", "visualizer"} :
                    /\ program = "generator" => ~rule.manual
                    /\ program = "solution" => rule.solution \notin {"None", "True"}
                    /\ program = "visualizer" => Configured(rule.visualizer)
                    /\ timestamp' = [timestamp EXCEPT ![program] = now]
             /\ UNCHANGED target
    /\ clock' = clock + 1
    /\ change' = "timestamp"
    /\ UNCHANGED <<rule, settings, cwd, meta, gpc, runs, cache_data, skipped, ended, warned,
                   target0, history>>
    /\ UNCHANGED invoked
    /\ UNCHANGED genRest

\* TestcaseRule.clean: path, the .in file of the testcase in the data tree
with_suffix(path, suffix) == [path EXCEPT ![Len(path)] = @ \o suffix]
CleanPath(r) == <<"data">> \o with_suffix(r.path, ".in")

\* if t.manual and t.source == path: 'Keep manual case'
KeepsManual_never(r) == FALSE
KeepsManual(r) == r.manual /\ r.source = CleanPath(r)

\* t.clean(problem, bar), after which the testcase is looked at no more: the
\* files of the testcase in the data tree are removed, unless it is a manual
\* case that is its own source.
Clean ==
    /\ gpc = "idle" /\ change = "none"
    /\ target' = IF KeepsManual(rule) THEN target ELSE [ext \in Exts |-> NoFile]
    /\ gpc' = "cleaned"
    /\ UNCHANGED <<rule, settings, cwd, meta, timestamp, clock, runs, cache_data, skipped,
                   ended, warned, target0, history, change, invoked>>
    /\ UNCHANGED genRest

GenNext ==
    \/ GenerateCall \/ UpToDateRaise \/ UpToDateReturn \/ UpToDateFalse
    \/ ManualLink \/ GeneratorRuns \/ ValidateInput
    \/ SolutionUnbound \/ SolutionDisabled \/ Visualize
    \/ Materialize \/ CleanAndRecord
    \/ ChangeSalt \/ Touch \/ Clean

GenSpec == GenInit /\ [][GenNext]_vars

\* ------------------------------------------------------ Directory.generate
\* One directory d = b, generated once.  The tree declares a, a/x, b and b/k;
\* b may include the directory a or the testcase a/x.  A file is its stem and
\* its suffix; dir_files gives for every entry of data/b where it comes from:
\* "old" (there before the call), "yaml" (testdata.yaml written), "link".
File(base, suffix) == <<base, suffix>>

\* base = f.with_suffix(''); relpath = base.relative_to(problem.path / 'data')
relpath(d, f) == PathJoin(d.path, f[1])

\* The entries data/b may hold before the call.
OldFiles ==
    {File("x", ".ans"), File("z", ".in"), File("z", ".ans"), File("z", ".txt"),
     File("k", ".in"), File("testdata", ".yaml")}

\* known_cases after the parse: the declared paths and the alias of the include.
DeclaredCases(include) ==
    {<<"a">>, <<"a", "x">>, <<"b">>, <<"b", "k">>}
        \cup (CASE include = "dir" -> {<<"b", "a">>}
               [] include = "case" -> {<<"b", "x">>}
               [] OTHER -> {})

\* The child of d that parse made for b/k, and the one Directory.generate makes
\* for a stray input: TestcaseRule(problem, base.name, '', d).
DeclaredCase(name) == [name |-> name, manual |-> FALSE]
AdoptedCase(name) == [name |-> name, manual |-> TRUE]

\* if f.suffix != '.in'
IsInput(f) == f[2] = ".in"

\* f.suffix in config.KNOWN_DATA_EXTENSIONS and f.with_suffix('.in') in files_created
Companion_never(f, created) == FALSE
Companion(f, created) == f[2] \in Exts /\ File(f[1], ".in") \in created

\* elif include.with_suffix(include.suffix + '.in').is_file(): ... else: assert False
IncludeMissing(d, files) == d.include = "case" /\ ".in" \notin files

ScanInit ==
    /\ sha512 = Sha512Reference
    /\ NoRun
    /\ RetryIdle
    /\ TestcaseIdle
    /\ drule \in {[path |-> <<"b">>, testdata_yaml |-> y, include |-> k] :
                      y \in {"None", "", "text"}, k \in {"none", "dir", "case"}}
    /\ included \in SUBSET Exts
    /\ drule.include = "none" => included = {}
    /\ dir_files \in {[f \in S |-> "old"] : S \in SUBSET OldFiles}
    /\ known_cases = DeclaredCases(drule.include)
    /\ files_created = {}
    /\ todo = {}
    /\ spc = "start"
    /\ bar_warned = {}
    /\ d_data = <<DeclaredCase("k")>>

scanRest == <<sha512, yaml, pc, method, err, rules, parallel, jobs, stack, cur,
              q, unfinished, wstate, wcur, tstate, interrupted, n, sentinels,
              exit_status, buildVars, retryVars, genOwn>>

\* Directory.generate up to the loop over dir_path.glob('*'): testdata.yaml is
\* written or removed, the included cases are linked; an include that is not
\* on disk ends the call with assert False.
DirGenerateLinks ==
    /\ spc = "start"
    /\ LET yamlfile == File("testdata", ".yaml")
           written == drule.testdata_yaml \notin {"None", ""}
           removed == drule.testdata_yaml = "" /\ yamlfile \in DOMAIN dir_files
           cases_to_link ==
               IF drule.include \in {"dir", "case"} /\ ".in" \in included THEN {"x"} ELSE {}
           links == IF IncludeMissing(drule, included) THEN {}
                    ELSE {File(case, ext) : case \in cases_to_link, ext \in included}
           created == (IF written THEN {yamlfile} ELSE {}) \cup links
           kept == (DOMAIN dir_files) \ (IF removed THEN {yamlfile} ELSE {})
       IN  /\ dir_files' = [f \in kept \cup created |->
                               IF f \in links THEN "link"
                               ELSE IF f = yamlfile /\ written THEN "yaml"
                               ELSE dir_files[f]]
           /\ files_created' = created
           /\ IF IncludeMissing(drule, included)
              THEN spc' = "raised" /\ todo' = {}
              ELSE spc' = "scan" /\ todo' = kept \cup created
    /\ UNCHANGED <<drule, included, known_cases, bar_warned, d_data>>
    /\ UNCHANGED scanRest

\* One pass of `for f in dir_path.glob('*')`, in whatever order glob yields.
ScanFile ==
    /\ spc = "scan"
    /\ \E f \in todo :
          /\ todo' = todo \ {f}
          /\ IF f \in files_created \/ relpath(drule, f) \in known_cases
             THEN UNCHANGED <<known_cases, bar_warned, d_data>>
             ELSE IF ~IsInput(f)
             THEN /\ bar_warned' = IF Companion(f, files_created) THEN bar_warned
                                    ELSE bar_warned \cup {<<"unlisted file", f>>}
                  /\ UNCHANGED <<known_cases, d_data>>
             ELSE /\ known_cases' = known_cases \cup {relpath(drule, f)}
                  /\ bar_warned' =
                         bar_warned \cup {<<"unlisted manual case", relpath(drule, f)>>}
                  /\ d_data' = Append(d_data, AdoptedCase(f[1]))
    /\ UNCHANGED <<drule, included, dir_files, files_created, spc>>
    /\ UNCHANGED scanRest

\* The loop has ended: bar.done(); return True.
ScanDone ==
    /\ spc = "scan"
    /\ todo = {}
    /\ spc' = "done"
    /\ UNCHANGED <<drule, included, dir_files, files_created, todo, known_cases, bar_warned,
                   d_data>>
    /\ UNCHANGED scanRest

ScanNext == DirGenerateLinks \/ ScanFile \/ ScanDone

ScanSpec == ScanInit /\ [][ScanNext]_vars

\* --------------------------------------------------------------- the system
Workers == 1..(MaxJobs + 1)

\* The construction of the GeneratorConfig and the call of one of its methods.
Setup == Construct \/ CallBuild \/ CallRun \/ CallClean

\* The steps of the main thread inside a method.
MainStep ==
    \/ SpawnThread \/ SpawnDone
    \/ WalkCollect \/ BuildProgramsLoop \/ BuildProgramsBar
    \/ WalkPut \/ WalkTestcase \/ TcEnd \/ TcRaise
    \/ WalkDirPre \/ WalkDescend \/ DirJoin \/ DirEnd \/ DirRaise \/ WalkReturn
    \/ FinalJoin \/ StopPut \/ StopDone \/ JoinThread \/ JoinDone \/ Finalize
    \/ HandlerPut \/ HandlerPutDone \/ HandlerExit

WorkerStep(w) == WorkerGet(w) \/ WorkerEnd(w) \/ WorkerRaise(w)

Next == Setup \/ MainStep \/ Interrupt \/ \E w \in Workers : WorkerStep(w)

Spec == Init /\ [][Next]_vars

\* Inside a method some thread that can run does run, and a generate that has
\* started ends (every program it runs has a timeout).  The interrupt is left
\* to the environment.
Progress == MainStep \/ \E w \in Workers : WorkerStep(w)

FairSpec == Spec /\ WF_vars(Progress)

\* ------------------------------------------------------- order of the tree
\* The rules in the order walk() reaches them, the root left out.
RECURSIVE WalkOrderFrom(_, _)
WalkOrderFrom(d, i) ==
    IF i > Len(rules[d].data) THEN <<>>
    ELSE LET c == rules[d].data[i]
         IN  <<c>> \o (IF IsDirectory(c) THEN WalkOrderFrom(c, 1) ELSE <<>>)
                  \o WalkOrderFrom(d, i + 1)
WalkOrder == IF rules = <<>> THEN <<>> ELSE WalkOrderFrom(1, 1)
Position(x) == CHOOSE k \in 1..Len(WalkOrder) : WalkOrder[k] = x
Precedes(x, y) == Position(x) < Position(y)

\* x lies strictly beneath directory d.
RECURSIVE Beneath(_, _)
Beneath(x, d) ==
    /\ rules[x].parent # 0
    /\ (rules[x].parent = d \/ Beneath(rules[x].parent, d))

Rules == 1..Len(rules)
Testcases == {i \in Rules : IsTestcase(i)}
Directories == {i \in Rules : IsDirectory(i) /\ i # 1}
Started(i) == tstate[i] \in {"running", "done", "failed", "raised", "aborted"}
Completed(i) == tstate[i] \in {"done", "failed"}
Busy == {w \in 1..Len(wstate) : wstate[w] = "busy"}

\* ------------------------------------------------------------------ claims

C2_DirectoryBarrier ==
    (method = "run" /\ parallel) =>
        /\ \A w \in 1..Len(wstate) : wcur[w] # 0 => IsTestcase(wcur[w])
        /\ \A d \in Directories : tstate[d] = "running" =>
               /\ pc = "dir" /\ cur = d
               /\ q = <<>> /\ unfinished = 0
               /\ Busy = {}
               /\ \A t \in Testcases : tstate[t] # "new" => Completed(t)

\* A directory's generate runs in a parallel run with workers, after two
\* testcases were enqueued.
C2_Witness ==
    /\ method = "run" /\ parallel /\ jobs >= 1
    /\ pc = "dir"
    /\ Cardinality({t \in Testcases : Completed(t)}) >= 2

\* C3: in a parallel run the pool never has more threads than the job count,
\* has exactly that many once all are started, and at most that many
\* generations are in flight.
C3_PoolSize ==
    (method = "run" /\ parallel) =>
        /\ Len(wstate) <= jobs
        /\ (pc # "spawn" => Len(wstate) = jobs)
        /\ Cardinality(Busy) <= jobs

\* As many generations in flight as there are jobs, with two jobs.
C3_Witness ==
    /\ method = "run" /\ parallel /\ jobs = 2
    /\ Cardinality(Busy) = jobs

C5_RunTerminates ==
    (method = "run" /\ parallel /\ jobs >= 1 /\ ~interrupted) =>
        (pc \in {"done", "crashed"} \/ ENABLED Progress)

\* C6: in the clean phase a directory's clean has not started unless the clean
\* of every testcase and directory beneath it has finished.
C6_CleanChildrenFirst ==
    method = "clean" =>
        \A d \in Directories : Started(d) =>
            \A x \in Rules : Beneath(x, d) => tstate[x] = "done"

\* A directory is cleaned that holds a directory that holds a testcase.
C6_Witness ==
    /\ method = "clean"
    /\ \E d \in Directories : tstate[d] = "running" /\
           \E x \in Directories : Beneath(x, d) /\
               \E t \in Testcases : Beneath(t, x)

\* C7: a tree in which two nodes resolve to the same path is rejected at parse
\* time, before anything is built or run: when the parse succeeds every node of
\* the tree has become a rule and the paths of the rules are pairwise distinct,
\* and they stay so; when it fails no method runs.
C7_UniquePaths ==
    /\ pc = "constructed" => Len(rules) = NodeCount(yaml)
    /\ \A i, j \in Rules : rules[i].path = rules[j].path => i = j
    /\ \A i \in Rules : rules[i].path \in known_cases
    /\ pc = "fatal" =>
           /\ method = "" /\ rules = <<>> /\ built = <<>>
           /\ wstate = <<>> /\ q = <<>>

\* A tree with two nodes of the same path has been rejected.
C7_Witness ==
    /\ pc = "fatal" /\ err = "duplicate"
    /\ yaml \in {YamlEmptyKey, YamlAlias}

\* C8 as stated: after a successful parse every include entry of a directory
\* names the path of a node declared before that directory, so never the
\* directory itself.
C8_IncludeDeclaredEarlier ==
    pc = "constructed" =>
        \A d \in Rules : \A k \in 1..Len(rules[d].includes) :
            \E x \in 1..(d - 1) : rules[x].path = rules[d].includes[k]

\* C9 as stated: when the build phase has ended, every program path referenced
\* by the tree has been built exactly once.
C9_BuiltOnce ==
    (method = "build" /\ pc \in {"done", "crashed"}) =>
        \A p \in generators_used \cup solutions_used :
            Cardinality({i \in 1..Len(built) : built[i] = p}) = 1

Generated == {t \in Testcases : ~rules[t].manual}

\* C16: after the parse the seed of every generated testcase is an integer in
\* 0 .. 2^31 - 1, two testcases with the same resolved random_salt and the
\* same generator command have the same seed, and a second parse of the same
\* tree gives every testcase the seed it has.
C16_SeedFunction ==
    pc = "constructed" =>
        /\ \A t \in Generated : rules[t].seed >= 0 /\ rules[t].seed <= 2147483647
        /\ \A t, u \in Generated :
               (/\ rules[t].random_salt = rules[u].random_salt
                /\ rules[t].generator = rules[u].generator) =>
                   rules[t].seed = rules[u].seed
        /\ LET again == ParseTree(yaml).rules
           IN  \A t \in Generated : again[t].seed = rules[t].seed

\* Two testcases with the same command, one declaring the salt and one
\* inheriting it, have the largest seed there is, from a digest of more than
\* 31 bits; a third one has another seed.
C16_Witness ==
    /\ pc = "constructed"
    /\ \E t, u \in Generated :
           /\ t # u
           /\ rules[t].declared.random_salt = "x"
           /\ rules[u].declared.random_salt = "inherit"
           /\ rules[u].random_salt = "x"
           /\ rules[t].generator = rules[u].generator
           /\ rules[t].seed = 2147483647 /\ rules[u].seed = 2147483647
    /\ \E t \in Generated : rules[t].seed = 0

\* C17: after the parse, for every node and every inheritable key, the
\* resolved value is the node's own value when it declares the key, else the
\* resolved value of its parent, else (at the root) the static default.
C17_ConfigInherits ==
    pc = "constructed" =>
        \A i \in Rules : \A key \in ConfigKeys :
            rules[i][key] =
                IF rules[i].declared[key] # "inherit"
                THEN ConfigFunc(key, rules[i].declared[key])
                ELSE IF rules[i].parent = 0 THEN DefaultConfig[key]
                ELSE rules[rules[i].parent][key]

\* A testcase two levels down has the retries and the solution the root
\* declares, through a directory that declares neither, and its own salt.
C17_Witness ==
    /\ pc = "constructed"
    /\ \E t \in Testcases :
           /\ rules[t].parent # 1 /\ rules[rules[t].parent].parent = 1
           /\ rules[t].declared.retries = "inherit"
           /\ rules[rules[t].parent].declared.retries = "inherit"
           /\ rules[t].retries = 2 /\ rules[t].solution = "s"
           /\ rules[t].declared.random_salt = "x" /\ rules[t].random_salt = "x"

\* The testcases whose solution was the default sentinel after the parse.
Sentinels == {t \in Testcases : ParseTree(yaml).rules[t].solution = "True"}

RecordIsCurrent ==
    /\ meta # NoMeta
    /\ meta.data = CacheData(rule)
    /\ rule.manual => meta.ctime >= target[".in"].ctime
    /\ ~rule.manual => meta.ctime >= timestamp.generator
    /\ Configured(rule.solution) => meta.ctime >= timestamp.solution
    /\ Configured(rule.visualizer) => meta.ctime >= timestamp.visualizer

Repeated ==
    {r \in 2..Len(history) :
        /\ history[r].change = "none"
        /\ history[r - 1].ended \notin {"failed", "skipped"}
        /\ ~UpToDateRaises(rule, target0)}

\* C13: when generation is run twice in a row with no change to the tree, the
\* programs or the salts, the second run reports the testcase up to date
\* (nothing is invoked for it) and modifies no file of the data tree.
C13_SecondRunUpToDate ==
    \A r \in Repeated : history[r].ended = "up to date" /\ ~history[r].modified

\* The calls made after the random_salt alone was changed.
Resalted == {r \in 2..Len(history) : history[r].change = "random_salt"}

C19_UnforcedKeepsFiles ==
    [][(gpc = "materialize" /\ ~Forced(rule, settings)) =>
          \A ext \in Exts :
              /\ target[ext] # NoFile => target'[ext] = target[ext]
              /\ (target[ext] # NoFile /\ cwd[ext] # "none" /\ cwd[ext] # target[ext].content) =>
                     ext \in warned'
              /\ target[ext] = NoFile => target'[ext].content = cwd[ext]]_vars

\* Without force the input produced differs from the one in the data tree,
\* which was kept with a warning, and the answer that was missing was created.
C19_Witness ==
    /\ gpc = "clean" /\ ~settings.force
    /\ target0[".in"] = OtherFile /\ target[".in"] = OtherFile /\ ".in" \in warned
    /\ target0[".ans"] = NoFile /\ target[".ans"] # NoFile

\* C20: after a call in which a file was skipped because of a conflict (the
\* file in the data tree differs from the one produced, or nothing was
\* produced for it, and force is not given), the cache record does not match:
\* the testcase is not up to date for the next call.
C20_SkipLeavesRecordStale ==
    (gpc = "idle" /\ change = "none" /\ ended \in {"done", "skipped"} /\ warned # {}) =>
        ~UpToDate(rule, target, timestamp, meta)

\* C21: when the validation of the produced input fails, the testcase is given
\* up: the call is over, no solution, answer validation or visualizer has run,
\* and the failing step leaves the data tree and the cache record as they were
\* (until clean is called).
C21_InvalidInputAborts ==
    /\ [](<<"input_validators", FALSE>> \in invoked /\ gpc # "cleaned" =>
             /\ gpc = "idle" /\ ended = "failed"
             /\ \A p \in invoked : p[1] \in {"generator", "input_validators"}
             /\ change = "none" => target = target0)
    /\ [][(gpc = "validate_in" /\ <<"input_validators", FALSE>> \in invoked') =>
             target' = target /\ meta' = meta]_vars

\* The input a generator wrote was rejected: it is in the scratch directory
\* only, and no record exists.
C21_Witness ==
    /\ <<"input_validators", FALSE>> \in invoked /\ <<"generator", TRUE>> \in invoked
    /\ cwd[".in"] # "none" /\ target[".in"] = NoFile /\ meta = NoMeta
    /\ Configured(rule.solution) /\ Configured(rule.visualizer)

\* run() has returned to generate(problem), which then returns True.
ReportsSuccess == method = "run" /\ pc = "done" /\ exit_status = -1

\* C22: the run phase, and generate(problem) built on it, reports success only
\* if every testcase generation and every directory generation reported
\* success: one failed task makes the outcome a failure.
C22_SuccessIsConjunction ==
    ReportsSuccess => \A i \in 1..Len(tstate) : tstate[i] \notin {"failed", "raised"}

\* C23: when a program fails to build, the tasks that depend on it fail and
\* every other task is still executed to completion.  The task of a testcase
\* whose program is not bound raises (t.generator.program is None); when the run
\* has ended with no directory task raising, every testcase other than the
\* ones that raised has been generated to the end.
C23_OthersComplete ==
    (/\ method = "run" /\ pc \in {"done", "crashed"}
     /\ \A d \in Rules \ Testcases : tstate[d] # "raised") =>
        \A i \in Testcases : tstate[i] = "raised" \/ Completed(i)

\* The invocation with this command string has its program: the build of its
\* program path has finished and called the callback of the invocation.
Bound(string) == \E i \in 1..Len(built) : built[i] = program_path(string)

\* C27: the program of an invocation is unbound until the build of its program
\* path has finished, and the build phase binds every invocation before any
\* task is scheduled: when the build phase has ended, the generator and the
\* solution of every testcase are bound.
C27_BoundAfterBuild ==
    (method = "build" /\ pc \in {"done", "crashed"}) =>
        \A i \in Testcases :
            /\ ~rules[i].manual => Bound(rules[i].generator)
            /\ rules[i].solution \notin {"None", "True"} => Bound(rules[i].solution)

InFlight == {w \in 1..Len(wstate) : wstate[w] = "busy"}

\* C28: during the parallel run no two testcases in flight use the same scratch
\* directory: a testcase is generated by one worker at a time and the scratch
\* paths of distinct testcases differ.
C28_ScratchExclusive ==
    \A w1, w2 \in InFlight :
        w1 # w2 =>
            /\ wcur[w1] # wcur[w2]
            /\ ScratchDir(rules[wcur[w1]]) # ScratchDir(rules[wcur[w2]])

\* Two workers are inside the generate of two testcases of one directory.
C28_Witness ==
    \E w1, w2 \in InFlight :
        /\ w1 # w2
        /\ Len(rules[wcur[w1]].path) = 2
        /\ SubSeq(rules[wcur[w1]].path, 1, 1) = SubSeq(rules[wcur[w2]].path, 1, 1)

\* C30: after a testcase is materialized its scratch directory holds no file
\* but the cache record, and the purge of the scratch directory never deletes
\* the cache record, also when the record is not written again because an
\* artifact was skipped.
C30_PurgeKeepsRecord ==
    /\ [](gpc = "idle" /\ ended \in {"done", "skipped"} => \A ext \in Exts : cwd[ext] = "none")
    /\ [][gpc = "clean" /\ meta # NoMeta => meta' # NoMeta]_vars

\* C31: in every numbered directory the i-th list entry, counted from 1 within
\* that directory, gets the prefix i, whatever other numbered directories the
\* tree has (every list entry of the trees has one key, so the i-th entry is
\* the i-th child).
C31_PrefixPerDirectory ==
    \A d \in 1..Len(rules) :
        rules[d].numbered =>
            \A i \in 1..Len(rules[d].data) :
                LET name == rules[rules[d].data[i]].name
                    prefix == ToString(i) \o "-"
                IN  /\ Len(name) >= Len(prefix)
                    /\ SubSeq(name, 1, Len(prefix)) = prefix

\* Arguments with placeholders, for the attempts of GeneratorInvocation.run.
PlaceholderArgs == {"{seed}", "{name}", "{name} {seed:3}", "7"}

\* C32: for every seed, 0 included, and every retry offset the arguments a
\* generator is run with hold no {seed} and no {name} any more, and
\* cache_command has the seed substituted and {name} left alone.
C32_PlaceholdersSubstituted ==
    \A i \in 1..Len(attempts) :
        \A arg \in PlaceholderArgs :
            /\ SeedAt(sub(arg, "a", attempts[i].seed)) = 0
            /\ NameAt(sub(arg, "a", attempts[i].seed)) = 0
            /\ SeedAt(cache_command(arg, attempts[i].seed)) = 0
            /\ NameAt(cache_command(arg, attempts[i].seed)) = NameAt(arg)

\* C33: in a run without interrupt every testcase rule of the tree, the ones
\* adopted from stray input files included, has its generate executed exactly
\* once: when the run has ended every testcase has been generated to the end,
\* and a testcase whose generate has started is never enqueued or started again.
C33_GeneratedExactlyOnce ==
    /\ []((method = "run" /\ ~interrupted /\ pc \in {"done", "crashed"}) =>
             \A i \in Testcases : Completed(i))
    /\ [][method = "run" =>
             \A i \in Testcases :
                 Started(i) => /\ tstate'[i] \notin {"new", "queued"}
                               /\ tstate[i] # "running" => tstate'[i] = tstate[i]]_vars

\* The entry the loop of Directory.generate has just looked at is stray: not
\* created by this call and not a known path.
Stray(f) == f \notin files_created /\ relpath(drule, f) \notin known_cases

\* C34 as stated: every stray entry is handled: a stray .in file is added to
\* known_cases and appended to the children as a manual testcase, with a
\* warning; any other stray file gets a warning only; no file is changed.
C34_StrayAllWarned ==
    [][(spc = "scan" /\ spc' = "scan") =>
          \A f \in todo \ todo' :
              /\ dir_files' = dir_files
              /\ (Stray(f) /\ f[2] = ".in") =>
                     /\ known_cases' = known_cases \cup {relpath(drule, f)}
                     /\ d_data' = Append(d_data, [name |-> f[1], manual |-> TRUE])
                     /\ bar_warned' =
                            bar_warned \cup {<<"unlisted manual case", relpath(drule, f)>>}
              /\ (Stray(f) /\ f[2] # ".in") =>
                     /\ bar_warned' = bar_warned \cup {<<"unlisted file", f>>}
                     /\ bar_warned' # bar_warned
                     /\ UNCHANGED <<known_cases, d_data>>
              /\ ~Stray(f) => UNCHANGED <<known_cases, d_data, bar_warned>>]_vars

\* C34: the same, but for a stray file with a known data extension whose .in
\* was linked by this call: it is passed over without a warning.
C34_StrayHandled ==
    [][(spc = "scan" /\ spc' = "scan") =>
          \A f \in todo \ todo' :
              LET silent == f[2] = ".ans" /\ <<f[1], ".in">> \in files_created
              IN  /\ dir_files' = dir_files
                  /\ (Stray(f) /\ f[2] = ".in") =>
                         /\ known_cases' = known_cases \cup {relpath(drule, f)}
                         /\ d_data' = Append(d_data, [name |-> f[1], manual |-> TRUE])
                         /\ bar_warned' =
                                bar_warned \cup {<<"unlisted manual case", relpath(drule, f)>>}
                  /\ (Stray(f) /\ f[2] # ".in" /\ ~silent) =>
                         /\ bar_warned' = bar_warned \cup {<<"unlisted file", f>>}
                         /\ bar_warned' # bar_warned
                         /\ UNCHANGED <<known_cases, d_data>>
                  /\ (~Stray(f) \/ (f[2] # ".in" /\ silent)) =>
                         UNCHANGED <<known_cases, d_data, bar_warned>>]_vars

\* The loop has ended: a stray z.in was adopted, a stray z.txt reported, and the
\* x.ans next to the linked x.in was passed over.
C34_Witness ==
    /\ spc = "done"
    /\ d_data = <<DeclaredCase("k"), AdoptedCase("z")>> /\ <<"b", "z">> \in known_cases
    /\ <<"unlisted file", File("z", ".txt")>> \in bar_warned
    /\ File("x", ".in") \in files_created /\ File("x", ".ans") \notin files_created
    /\ File("x", ".ans") \in DOMAIN dir_files /\ <<"b", "x">> \notin known_cases
    /\ <<"unlisted file", File("x", ".ans")>> \notin bar_warned

C36_OneJobSequential ==
    (method = "run" /\ jobs <= 1) =>
        /\ wstate = <<>> /\ q = <<>>
        /\ pc \notin {"spawn", "dirjoin", "join"}
        /\ \A i \in Testcases : tstate[i] # "queued"

\* The testcases an include entry stands for: the testcase of that path, or
\* every testcase beneath the directory of that path.
IncludedCases(include) ==
    {i \in Testcases :
        \/ rules[i].path = include
        \/ \E x \in Rules : IsDirectory(x) /\ rules[x].path = include /\ Beneath(i, x)}

\* C37: when a directory's generate resolves its includes, every included
\* testcase and every testcase beneath an included directory has completed its
\* generation in this run, also when the directory includes itself or one of
\* its ancestors.
C37_IncludesCompleted ==
    method = "run" =>
        \A d \in Directories : Started(d) =>
            \A k \in 1..Len(rules[d].includes) :
                \A i \in IncludedCases(rules[d].includes[k]) : Completed(i)

\* C38: no testcase's generate runs while its resolved solution is the default
\* sentinel True: a testcase whose generate has started in the run phase has a
\* solution invocation or none; and, a testcase adopted in the run phase taking
\* the resolved solution of its directory, no directory holds the sentinel any
\* more when the walk of build() is over.
C38_NoSentinelInRun ==
    /\ method = "run" =>
           \A i \in Testcases : Started(i) => rules[i].solution # "True"
    /\ (method = "build" /\ pc = "build_programs") =>
           \A d \in Directories : rules[d].solution # "True"

\* What puts a file at a path of the data tree: a declared rule, or an include
\* entry of a directory (its alias is the directory's path / the leaf name of
\* the included path).
Producers ==
    {<<"rule", i, 0>> : i \in Rules}
        \cup UNION {{<<"include", d, k>> : k \in 1..Len(rules[d].includes)} : d \in Rules}
ProducedPath(p) ==
    IF p[1] = "rule" THEN rules[p[2]].path
    ELSE PathJoin(rules[p[2]].path, PathName(rules[p[2]].includes[p[3]]))

\* C39: after a successful parse the declared paths and the include aliases are
\* pairwise distinct: a tree in which two of them collide, two includes of one
\* directory with the same leaf name included, was rejected by the parse.
C39_ProducersDistinct ==
    pc = "constructed" =>
        \A p1, p2 \in Producers : ProducedPath(p1) = ProducedPath(p2) => p1 = p2

\* C40: for every retries value R, R <= 0 included, the run of a generator
\* invokes it at least once and at most max(1, R) times and returns a result:
\* it does not end with an exception.
C40_AtLeastOneAttempt ==
    /\ Len(attempts) <= (IF retries > 1 THEN retries ELSE 1)
    /\ rpc # "raised"
    /\ rpc = "returned" => (Len(attempts) >= 1 /\ result = attempts[Len(attempts)])

====
